---- MODULE Spec2Model ----
(***************************************************************************)
(* Evidence derivation pipeline of scripts/pipeline_all_v2.js: the DERIVE  *)
(* loop of main() (one pass over txHashes), its decoders, its accumulators *)
(* (address profiles, method stats, approval registry), the allowance      *)
(* linkage and the end-of-run flush.                                       *)
(*                                                                         *)
(* Strings that the code compares are strings here.  An address has two    *)
(* spellings: the checksummed one ("A") and the lowercase one ("a").       *)
(* Hex payloads are sequences of nibbles (16 stands for a character that   *)
(* is no hex digit); decimal strings are sequences of decimal digits.      *)
(* A JS value that may be null/undefined and is not a string is a          *)
(* sequence of length 0 (null) or 1.                                       *)
(***************************************************************************)
EXTENDS Integers, Sequences, FiniteSets, TLC

\* ------------------------------------------------------------------ bounds
\* Longest txHashes sequence of the general specifications.
NumTx == 2

\* Longest txHashes sequence of the specification of reverted transactions.
NumRevertTx == 1

\* Largest shard capacity and longest sequence of writes handed to a single
\* ndjsonWriter in the writer's own specification.
MaxShard == 3

MaxWrites == 5

\* ------------------------------------------------------------ JS primitives
\* null / undefined where a string is expected
NULL == "<null>"
\* null where a number is expected (first_seen_ts: null, ts = null)
NoNum == -1

LowerTab ==
  [x \in {"A", "B", "C", "D", "T", "U"} |->
     CASE x = "A" -> "a" [] x = "B" -> "b" [] x = "C" -> "c"
       [] x = "D" -> "d" [] x = "T" -> "t" [] x = "U" -> "u"]

\* String.prototype.toLowerCase
toLowerCase(s) == IF s \in DOMAIN LowerTab THEN LowerTab[s] ELSE s

\* `${x}` inside a template string: null prints as "null"
Tmpl(x) == IF x = NULL THEN "null" ELSE x

RECURSIVE toString(_)
\* BigInt.prototype.toString / Number toString: the decimal digits of n >= 0
toString(n) == IF n < 10 THEN <<n>> ELSE toString(n \div 10) \o <<n % 10>>

RECURSIVE BigIntDec(_)
\* BigInt(<decimal string>)
BigIntDec(s) ==
  IF s = <<>> THEN 0 ELSE 10 * BigIntDec(SubSeq(s, 1, Len(s) - 1)) + s[Len(s)]

RECURSIVE BigIntHex(_)
\* BigInt("0x...") of a well-formed hex string
BigIntHex(h) ==
  IF h = <<>> THEN 0 ELSE 16 * BigIntHex(SubSeq(h, 1, Len(h) - 1)) + h[Len(h)]

\* BigInt(hex) throws SyntaxError on a string that is no hex integer
BigIntThrows(h) == \E k \in 1..Len(h) : h[k] \notin 0..15

\* hexToBigInt: "0x" (and null) give 0n; anything else goes to BigInt
hexToBigIntThrows(hex) == hex # <<>> /\ BigIntThrows(hex)

hexToBigInt(hex) == IF hex = <<>> THEN 0 ELSE BigIntHex(hex)

\* addBigStr(aStr, add) = (BigInt(aStr) + add).toString()
addBigStr(aStr, add) == toString(BigIntDec(aStr) + add)

\* ------------------------------------------------------- topics and hashes
\* A topic is a 32-byte hex string, held as <<high 12 bytes, low 20 bytes>>;
\* a topic that is no string (null) is <<>>.
TRANSFER_TOPIC0 == <<"ddf252ad1be2c89b69c2b068", "fc378daa952ba7f163c4a11628f55a4df523b3ef">>

APPROVAL_TOPIC0 == <<"8c5be1e5ebec7d5bd14f7142", "7d1e84f3dd0314c0f7b2291e5b200ac8c7c3b925">>

OTHER_TOPIC0 == <<"e1fffcc4923d04b559f4d29a", "8bfc6cda04eb5b0d3c460751c2402c5c5cc9109c">>

AddrTopic(a) == <<"000000000000000000000000", a>>

\* (topic || "").toLowerCase()
topicLower(t) == IF t = <<>> THEN <<>> ELSE <<toLowerCase(t[1]), toLowerCase(t[2])>>

\* topicToAddress: "0x" + topic.slice(-40), null for a non-string
topicToAddress(topic) == IF topic = <<>> THEN NULL ELSE topic[2]

\* ------------------------------------------------------------------ JS Map
\* A Map is the sequence of its <<key, value>> entries in insertion order.
MapHas(m, k) == \E x \in 1..Len(m) : m[x][1] = k

MapIdx(m, k) == CHOOSE x \in 1..Len(m) : m[x][1] = k

MapGet(m, k) == m[MapIdx(m, k)][2]

\* Map.prototype.set: an existing key keeps its place, a new key goes last
MapSet(m, k, v) ==
  IF MapHas(m, k) THEN [m EXCEPT ![MapIdx(m, k)] = <<k, v>>] ELSE Append(m, <<k, v>>)

\* Set.prototype.add on a Set held as its insertion-ordered sequence
SetAdd(s, x) == IF \E k \in 1..Len(s) : s[k] = x THEN s ELSE Append(s, x)

\* obj[key] || "0" on an object used as a dictionary of decimal strings
DictGet(d, k) == IF k \in DOMAIN d THEN d[k] ELSE <<0>>

DictSet(d, k, v) == [x \in DOMAIN d \cup {k} |-> IF x = k THEN v ELSE d[x]]

EmptyDict == [x \in {} |-> <<0>>]

\* ------------------------------------------------------------ accumulators
\* getProf's freshly created profile
NewProf(a) ==
  [address |-> a, eth_in_wei |-> <<0>>, eth_out_wei |-> <<0>>,
   eth_in_txs |-> 0, eth_out_txs |-> 0,
   erc20_in |-> EmptyDict, erc20_out |-> EmptyDict,
   tx_out_count |-> 0, tx_in_count |-> 0,
   gas_spent_wei |-> <<0>>, total_gas_used |-> <<0>>,
   call_targets |-> <<>>,
   first_seen_ts |-> NoNum, last_seen_ts |-> NoNum,
   first_seen_block |-> NoNum, last_seen_block |-> NoNum]

\* getProf(a): the profile map with a's profile created if it was missing
getProf(m, a) == IF MapHas(m, a) THEN m ELSE Append(m, <<a, NewProf(a)>>)

\* the first/last-seen bookkeeping shared by the tx.from and tx.to branches
SeenUpdate(p, ts, bn) ==
  LET p1 == IF ts # NoNum /\ ts # 0
            THEN [p EXCEPT
                    !.first_seen_ts = IF @ = NoNum \/ ts < @ THEN ts ELSE @,
                    !.last_seen_ts  = IF @ = NoNum \/ ts > @ THEN ts ELSE @]
            ELSE p
  IN [p1 EXCEPT
        !.first_seen_block = IF @ = NoNum \/ bn < @ THEN bn ELSE @,
        !.last_seen_block  = IF @ = NoNum \/ bn > @ THEN bn ELSE @]

\* if (tx.from) { ... } of "Update address profile"
TouchFrom(m, a, gasCostWei, gasUsed, ts, bn) ==
  IF a = NULL THEN m
  ELSE LET m1 == getProf(m, a)
           p  == MapGet(m1, a)
           p1 == [p EXCEPT !.tx_out_count = @ + 1,
                           !.gas_spent_wei = addBigStr(@, gasCostWei),
                           !.total_gas_used = addBigStr(@, gasUsed)]
       IN MapSet(m1, a, SeenUpdate(p1, ts, bn))

\* if (tx.to) { ... } of "Update address profile"
TouchTo(m, a, ts, bn) ==
  IF a = NULL THEN m
  ELSE LET m1 == getProf(m, a)
           p  == MapGet(m1, a)
       IN MapSet(m1, a, SeenUpdate([p EXCEPT !.tx_in_count = @ + 1], ts, bn))

\* pfFrom/pfTo update of the ETH TRANSFER block
NativeProfile(m, from, to, value) ==
  LET m1 == getProf(m, from)
      m2 == getProf(m1, to)
      m3 == MapSet(m2, from,
              [MapGet(m2, from) EXCEPT !.eth_out_wei = addBigStr(@, value),
                                       !.eth_out_txs = @ + 1,
                                       !.call_targets = SetAdd(@, to)])
  IN MapSet(m3, to,
       [MapGet(m3, to) EXCEPT !.eth_in_wei = addBigStr(@, value),
                              !.eth_in_txs = @ + 1])

\* "Profile update" of the ERC20 TRANSFER EVENTS loop
Erc20Profile(m, from, to, tokenAddr, amount) ==
  LET m1 == IF from = NULL THEN m
            ELSE LET g == getProf(m, from)
                 IN MapSet(g, from,
                      [MapGet(g, from) EXCEPT !.erc20_out =
                         DictSet(@, tokenAddr,
                           toString(BigIntDec(DictGet(@, tokenAddr)) + amount))])
  IN IF to = NULL THEN m1
     ELSE LET g == getProf(m1, to)
          IN MapSet(g, to,
               [MapGet(g, to) EXCEPT !.erc20_in =
                  DictSet(@, tokenAddr,
                    toString(BigIntDec(DictGet(@, tokenAddr)) + amount))])

\* "Track in profile" of walkTrace
InternalProfile(m, from, to, val) ==
  LET m1 == getProf(m, from)
      m2 == getProf(m1, to)
      m3 == MapSet(m2, from, [MapGet(m2, from) EXCEPT !.eth_out_wei = addBigStr(@, val)])
      m4 == MapSet(m3, to, [MapGet(m3, to) EXCEPT !.eth_in_wei = addBigStr(@, val)])
  IN MapSet(m4, from, [MapGet(m4, from) EXCEPT !.call_targets = SetAdd(@, to)])

\* getMethodStat's freshly created entry
NewMethodStat(to, methodId) ==
  [to |-> to, method_id |-> methodId, count |-> 0, success_count |-> 0,
   revert_count |-> 0, callers |-> <<>>, first_seen_ts |-> NoNum,
   last_seen_ts |-> NoNum]

\* getMethodStat(to, methodId): the map with the entry created if missing
getMethodStat(m, to, methodId) ==
  IF MapHas(m, <<to, methodId>>) THEN m
  ELSE Append(m, <<(<<to, methodId>>), NewMethodStat(to, methodId)>>)

\* "Update method stats" that leaves a reverted call out of revert_count
TouchMethodSuccessOnly(m, tx, methodId, txStatus, ts) ==
  IF tx.to # NULL /\ methodId # "0x"
  THEN LET m1 == getMethodStat(m, tx.to, methodId)
           s  == MapGet(m1, <<tx.to, methodId>>)
           s1 == [s EXCEPT !.count = @ + 1,
                           !.success_count = IF txStatus = "success" THEN @ + 1 ELSE @,
                           !.callers = IF tx.from # NULL THEN SetAdd(@, tx.from) ELSE @]
       IN MapSet(m1, <<tx.to, methodId>>, s1)
  ELSE m

\* "Update method stats"
TouchMethod(m, tx, methodId, txStatus, ts) ==
  IF tx.to # NULL /\ methodId # "0x"
  THEN LET m1 == getMethodStat(m, tx.to, methodId)
           s  == MapGet(m1, <<tx.to, methodId>>)
           s1 == [s EXCEPT !.count = @ + 1,
                           !.success_count = IF txStatus = "success" THEN @ + 1 ELSE @,
                           !.revert_count = IF txStatus = "success" THEN @ ELSE @ + 1,
                           !.callers = IF tx.from # NULL THEN SetAdd(@, tx.from) ELSE @]
           s2 == IF ts # NoNum /\ ts # 0
                 THEN [s1 EXCEPT
                         !.first_seen_ts = IF @ = NoNum \/ ts < @ THEN ts ELSE @,
                         !.last_seen_ts  = IF @ = NoNum \/ ts > @ THEN ts ELSE @]
                 ELSE s1
       IN MapSet(m1, <<tx.to, methodId>>, s2)
  ELSE m

\* ------------------------------------------------- records written to sinks
\* One write(obj) call: the writer's name and the record
W(w, doc) == [w |-> w, doc |-> doc]

\* tx.data.slice(0, 10) of calldata held as <<first ten characters, rest>>
slice10(data) == data[1]

\* const methodId = tx.data ? tx.data.slice(0, 10) : "0x"
MethodId(tx) == IF tx.data = <<>> THEN "0x" ELSE slice10(tx.data)

\* const txStatus = rc.status === 1 ? "success" : "revert"
TxStatus(rc) == IF rc.status = 1 THEN "success" ELSE "revert"

\* const ts = blk ? Number(blk.timestamp) : null   (blk is <<>> or <<block>>)
Timestamp(blk) == IF blk = <<>> THEN NoNum ELSE blk[1].timestamp

TxEnrichedDoc(h, tx, rc, ts) ==
  [doc_type |-> "tx_enriched", tx_hash |-> h, block_number |-> rc.blockNumber,
   timestamp |-> ts, status |-> TxStatus(rc), from |-> tx.from, to |-> tx.to,
   value_wei |-> IF tx.value # 0 THEN toString(tx.value) ELSE <<0>>,
   gas_used |-> IF rc.gasUsed # 0 THEN toString(rc.gasUsed) ELSE <<>>,
   gas_price |-> IF tx.gasPrice # 0 THEN toString(tx.gasPrice) ELSE <<>>,
   logs_count |-> Len(rc.logs), method_id |-> MethodId(tx),
   tx_index |-> rc.transactionIndex]

BlockTxOrderDoc(h, rc, ts) ==
  [doc_type |-> "block_tx_order", block_number |-> rc.blockNumber, tx_hash |-> h,
   tx_index |-> rc.transactionIndex, timestamp |-> ts]

ContractCallDoc(h, tx, rc, ts) ==
  [doc_type |-> "contract_call", tx_hash |-> h, from |-> tx.from, to |-> tx.to,
   method_id |-> MethodId(tx), status |-> TxStatus(rc),
   value_wei |-> toString(tx.value), gas_used |-> toString(rc.gasUsed),
   effective_gas_price |-> toString(IF tx.gasPrice # 0 THEN tx.gasPrice ELSE 1),
   timestamp |-> ts, block_number |-> rc.blockNumber,
   tx_index |-> rc.transactionIndex]

NativeTransferDoc(h, tx, rc, ts) ==
  [doc_type |-> "asset_transfer", tx_hash |-> h, block_number |-> rc.blockNumber,
   timestamp |-> ts, asset_type |-> "native", asset |-> "ETH",
   from |-> tx.from, to |-> tx.to, amount_wei |-> toString(tx.value)]

NativeEdgeDoc(h, tx, rc, ts) ==
  [doc_type |-> "fund_flow_edge", tx_hash |-> h, block_number |-> rc.blockNumber,
   timestamp |-> ts, asset_type |-> "native", asset |-> "ETH",
   from |-> tx.from, to |-> tx.to, amount |-> toString(tx.value)]

Erc20TransferDoc(h, rc, ts, lg, from, to, amount) ==
  [doc_type |-> "asset_transfer", tx_hash |-> h, block_number |-> rc.blockNumber,
   timestamp |-> ts, asset_type |-> "erc20", asset |-> lg.address,
   from |-> from, to |-> to, amount |-> toString(amount),
   log_index |-> toString(lg.logIndex)]

Erc20EdgeDoc(h, rc, ts, lg, from, to, amount) ==
  [doc_type |-> "fund_flow_edge", tx_hash |-> h, block_number |-> rc.blockNumber,
   timestamp |-> ts, asset_type |-> "erc20", asset |-> lg.address,
   from |-> from, to |-> to, amount |-> toString(amount)]

\* --------------------------------------- the loop body up to the trace fetch
\* tx_enriched, block_tx_order and contract_call of one transaction
HeadWrites(h, tx, rc, ts) ==
  << W("tx_enriched", TxEnrichedDoc(h, tx, rc, ts)),
     W("block_tx_order", BlockTxOrderDoc(h, rc, ts)),
     W("contract_calls", ContractCallDoc(h, tx, rc, ts)) >>

\* if (tx.to && tx.value && tx.value > 0n)
HasNativeTransfer(tx) == tx.to # NULL /\ tx.value # 0 /\ tx.value > 0

\* the two writes of the ETH TRANSFER block
NativeWrites(h, tx, rc, ts) ==
  IF HasNativeTransfer(tx)
  THEN << W("asset_transfers", NativeTransferDoc(h, tx, rc, ts)),
          W("fund_flow_edges", NativeEdgeDoc(h, tx, rc, ts)) >>
  ELSE <<>>

\* the log filter of the ERC20 TRANSFER EVENTS loop (the two `continue`s)
IsTransferLog(lg) ==
  /\ Len(lg.topics) >= 3
  /\ topicLower(lg.topics[1]) = topicLower(TRANSFER_TOPIC0)

RECURSIVE TransferLoop(_, _, _, _, _)
\* for (const lg of rc.logs) { ... } from log k on; acc carries the writes,
\* the profile map, the local `transfers` array and whether BigInt threw
TransferLoop(h, rc, ts, k, acc) ==
  IF k > Len(rc.logs) \/ acc.threw THEN acc
  ELSE LET lg == rc.logs[k] IN
       IF ~IsTransferLog(lg) THEN TransferLoop(h, rc, ts, k + 1, acc)
       ELSE LET from == topicToAddress(lg.topics[2])
                to == topicToAddress(lg.topics[3])
            IN IF hexToBigIntThrows(lg.data) THEN [acc EXCEPT !.threw = TRUE]
               ELSE LET amount == hexToBigInt(lg.data) IN
                    TransferLoop(h, rc, ts, k + 1,
                      [out |-> acc.out \o
                          << W("asset_transfers",
                               Erc20TransferDoc(h, rc, ts, lg, from, to, amount)),
                             W("fund_flow_edges",
                               Erc20EdgeDoc(h, rc, ts, lg, from, to, amount)) >>,
                       prof |-> Erc20Profile(acc.prof, from, to, lg.address, amount),
                       transfers |-> Append(acc.transfers,
                          [from |-> from, to |-> to, amount |-> amount,
                           tokenAddr |-> lg.address, logIndex |-> lg.logIndex]),
                       threw |-> FALSE])

\* Lines 827-1004: everything between the block fetch and the trace fetch
BeforeTrace(h, tx, rc, ts, o, pf, ms) ==
  LET gasPrice == IF tx.gasPrice # 0 THEN tx.gasPrice ELSE 1
      gasUsed == rc.gasUsed
      pf1 == TouchTo(TouchFrom(pf, tx.from, gasUsed * gasPrice, gasUsed, ts,
                               rc.blockNumber),
                     tx.to, ts, rc.blockNumber)
      ms1 == TouchMethod(ms, tx, MethodId(tx), TxStatus(rc), ts)
      pf2 == IF HasNativeTransfer(tx)
             THEN NativeProfile(pf1, tx.from, tx.to, tx.value) ELSE pf1
      acc == TransferLoop(h, rc, ts, 1,
               [out |-> o \o HeadWrites(h, tx, rc, ts) \o NativeWrites(h, tx, rc, ts),
                prof |-> pf2, transfers |-> <<>>, threw |-> FALSE])
  IN [out |-> acc.out, prof |-> acc.prof, methodStats |-> ms1,
      transfers |-> acc.transfers, threw |-> acc.threw]

\* ----------------------------------------------------------- call traces
\* A call-trace node is [from, to, input, value, type, calls, revertReason,
\* output]; value is <<>> (absent) or <<hex string>>, input is <<>> or
\* calldata, the trace itself is <<>> (null) or <<root node>>.

\* const selector = input && input.length >= 10 ? input.slice(0, 10) : null
InputSelector(input) ==
  IF input # <<>> /\ input[1] # "0x" THEN slice10(input) ELSE NULL

\* const val = value ? BigInt(value) : 0n
TraceVal(value) == IF value = <<>> THEN 0 ELSE BigIntHex(value[1])

TraceEdgeDoc(h, rc, ts, call, depth) ==
  [doc_type |-> "trace_edge", tx_hash |-> h, block_number |-> rc.blockNumber,
   timestamp |-> ts, caller |-> call.from, callee |-> call.to,
   call_type |-> call.type,
   value |-> IF call.value = <<>> THEN <<0>> ELSE call.value[1],
   input_selector |-> InputSelector(call.input), depth |-> depth]

InternalTransferDoc(h, rc, ts, call, depth) ==
  [doc_type |-> "internal_native_transfer", tx_hash |-> h,
   block_number |-> rc.blockNumber, timestamp |-> ts, from |-> call.from,
   to |-> call.to, value_wei |-> toString(TraceVal(call.value)), depth |-> depth,
   call_type |-> call.type]

\* what walkTrace does at one node, before it descends
WalkNode(h, rc, ts, call, depth, acc) ==
  IF call.from # NULL /\ call.to # NULL /\ call.type # NULL
  THEN LET o1 == Append(acc.out, W("trace_edges", TraceEdgeDoc(h, rc, ts, call, depth)))
           val == TraceVal(call.value)
       IN IF val > 0
          THEN [out |-> Append(o1, W("internal_native_transfers",
                                     InternalTransferDoc(h, rc, ts, call, depth))),
                prof |-> InternalProfile(acc.prof, call.from, call.to, val)]
          ELSE [out |-> o1, prof |-> acc.prof]
  ELSE acc

RECURSIVE walkTrace(_, _, _, _, _, _)
RECURSIVE WalkCalls(_, _, _, _, _, _, _)
\* function walkTrace(call, depth = 0); call is <<>> or <<node>>
walkTrace(h, rc, ts, call, depth, acc) ==
  IF call = <<>> THEN acc
  ELSE WalkCalls(h, rc, ts, call[1].calls, 1, depth + 1,
                 WalkNode(h, rc, ts, call[1], depth, acc))

\* for (const sub of call.calls) walkTrace(sub, depth + 1)
WalkCalls(h, rc, ts, calls, k, depth, acc) ==
  IF k > Len(calls) THEN acc
  ELSE WalkCalls(h, rc, ts, calls, k + 1, depth,
                 walkTrace(h, rc, ts, <<calls[k]>>, depth, acc))

\* if (trace) { traceEdgesW.write(trace_call); walkTrace(trace) }
TraceSection(h, rc, ts, trace, acc) ==
  IF trace = <<>> THEN acc
  ELSE walkTrace(h, rc, ts, trace, 0,
         [out |-> Append(acc.out,
                    W("trace_edges",
                      [doc_type |-> "trace_call", tx_hash |-> h,
                       block_number |-> rc.blockNumber, trace |-> trace[1]])),
          prof |-> acc.prof])

\* ---------------------------------------------------------- revert reasons
\* A string is the sequence of its character codes.  trace.revertReason and
\* rc.revertReason are <<>> when absent (or empty: both are falsy).
\* trace.output is <<>> when absent, else <<bytes>>: the bytes its hex
\* digits spell after "0x"; <<(<<256>>)>> is an output that is no string.

\* "0x08c379a0", the selector of Error(string)
ERROR_SELECTOR == <<8, 195, 121, 160>>

\* "0x4e487b71", the selector of Panic(uint256)
PANIC_SELECTOR == <<78, 72, 123, 113>>

\* output.startsWith(selector)
startsWith(bytes, sel) == Len(bytes) >= Len(sel) /\ SubSeq(bytes, 1, Len(sel)) = sel

\* the unsigned integer of the 32-byte word at byte offset off of data, as
\* the ABI reader reads an offset or a length: NoNum when the word runs
\* over the end of the data or its value is out of the reader's range
WordAt(data, off) ==
  IF off < 0 \/ off + 32 > Len(data) THEN NoNum
  ELSE IF \E k \in 1..30 : data[off + k] # 0 THEN NoNum
  ELSE 256 * data[off + 31] + data[off + 32]

\* toUtf8String throws on bytes that are no UTF-8 (here: any byte that is
\* not ASCII)
Utf8Throws(bytes) == \E k \in 1..Len(bytes) : bytes[k] > 127

\* AbiCoder.decode(["string"], data)[0]: follow the offset in the head, read
\* the length, then that many bytes (the padding to a full word must be
\* there), then decode them as UTF-8; any failure throws
AbiDecodeString(data) ==
  LET off == WordAt(data, 0)
      len == IF off = NoNum THEN NoNum ELSE WordAt(data, off)
      padded == ((len + 31) \div 32) * 32
  IN IF off = NoNum \/ len = NoNum THEN [threw |-> TRUE, value |-> <<>>]
     ELSE IF off + 32 + padded > Len(data) THEN [threw |-> TRUE, value |-> <<>>]
     ELSE LET bytes == SubSeq(data, off + 33, off + 32 + len)
          IN IF Utf8Throws(bytes) THEN [threw |-> TRUE, value |-> <<>>]
             ELSE [threw |-> FALSE, value |-> bytes]

\* the hex digits of a sequence of bytes
RECURSIVE Nibbles(_)
Nibbles(bytes) ==
  IF bytes = <<>> THEN <<>>
  ELSE <<bytes[1] \div 16, bytes[1] % 16>> \o Nibbles(Tail(bytes))

\* the characters of the decimal digits of n
DigitChars(n) == [k \in 1..Len(toString(n)) |-> 48 + toString(n)[k]]

\* panicCodes[errorCode] || errorCode, as the template string prints it
PanicText(code) ==
    CASE code = 1 -> <<65, 83, 83, 69, 82, 84, 73, 79, 78, 95, 69, 82, 82, 79, 82>>  \* ASSERTION_ERROR
      [] code = 17 -> <<65, 82, 73, 84, 72, 77, 69, 84, 73, 67, 95, 79, 86, 69, 82, 70, 76, 79, 87>>  \* ARITHMETIC_OVERFLOW
      [] code = 18 -> <<68, 73, 86, 73, 83, 73, 79, 78, 95, 66, 89, 95, 90, 69, 82, 79>>  \* DIVISION_BY_ZERO
      [] code = 33 -> <<69, 78, 85, 77, 95, 67, 79, 78, 86, 69, 82, 83, 73, 79, 78, 95, 69, 82, 82, 79, 82>>  \* ENUM_CONVERSION_ERROR
      [] code = 34 -> <<73, 78, 86, 65, 76, 73, 68, 95, 69, 78, 67, 79, 68, 73, 78, 71>>  \* INVALID_ENCODING
      [] code = 65 -> <<65, 82, 82, 65, 89, 95, 65, 76, 76, 79, 67, 65, 84, 73, 79, 78, 95, 69, 82, 82, 79, 82>>  \* ARRAY_ALLOCATION_ERROR
      [] code = 81 -> <<77, 69, 77, 79, 82, 89, 95, 65, 67, 67, 69, 83, 83, 95, 69, 82, 82, 79, 82>>  \* MEMORY_ACCESS_ERROR
      [] OTHER -> DigitChars(code)

\* `Panic(${...})`
PanicReason(code) == <<80, 97, 110, 105, 99, 40>> \o PanicText(code) \o <<41>>

\* the try block of decodeRevertReason: <<>> for null (also when anything
\* inside throws), else <<reason>>
DecodeOutput(output) ==
  IF output = <<256>> THEN <<>>
  ELSE IF startsWith(output, ERROR_SELECTOR) /\ Len(output) > 4
  THEN LET d == AbiDecodeString(SubSeq(output, 5, Len(output)))
       IN IF d.threw THEN <<>> ELSE <<d.value>>
  ELSE IF startsWith(output, PANIC_SELECTOR) /\ Len(output) > 4
  THEN LET data == Nibbles(SubSeq(output, 5, Len(output)))
       IN IF hexToBigIntThrows(data) THEN <<>> ELSE <<PanicReason(hexToBigInt(data))>>
  ELSE <<>>

\* decodeRevertReason with the receipt's reason tried before the trace's
decodeRevertReasonReceiptFirst(trace, rc) ==
  IF rc.revertReason # <<>> THEN <<rc.revertReason>>
  ELSE IF trace # <<>> /\ trace[1].revertReason # <<>> THEN <<trace[1].revertReason>>
  ELSE IF trace # <<>> /\ trace[1].output # <<>> THEN DecodeOutput(trace[1].output[1])
  ELSE <<>>

\* decodeRevertReason(trace, rc): <<>> for null, else <<reason>>
decodeRevertReason(trace, rc) ==
  IF trace # <<>> /\ trace[1].revertReason # <<>> THEN <<trace[1].revertReason>>
  ELSE IF rc.revertReason # <<>> THEN <<rc.revertReason>>
  ELSE IF trace # <<>> /\ trace[1].output # <<>> THEN DecodeOutput(trace[1].output[1])
  ELSE <<>>

\* if (txStatus === "revert") revertReasonsW.write(...)
RevertWrites(h, rc, ts, trace) ==
  IF TxStatus(rc) = "revert"
  THEN << W("revert_reasons",
            [doc_type |-> "revert_reason", tx_hash |-> h, status |-> "revert",
             reason |-> decodeRevertReason(trace, rc), timestamp |-> ts,
             block_number |-> rc.blockNumber]) >>
  ELSE <<>>

\* ------------------------------------------------- approvals and allowance
\* decodeApprovalEvent(log): <<>> for null, else <<[owner, spender, value]>>;
\* a throw inside is caught and gives null
decodeApprovalEvent(log) ==
  IF Len(log.topics) < 3 THEN <<>>
  ELSE IF topicLower(log.topics[1]) # topicLower(APPROVAL_TOPIC0) THEN <<>>
  ELSE IF hexToBigIntThrows(log.data) THEN <<>>
  ELSE << [owner |-> topicToAddress(log.topics[2]),
           spender |-> topicToAddress(log.topics[3]),
           value |-> hexToBigInt(log.data)] >>

\* const approvalKey = `${tokenAddr}|${owner}|${spender}` (its three parts)
ApprovalKey(tokenAddr, owner, spender) == <<Tmpl(tokenAddr), Tmpl(owner), Tmpl(spender)>>

ApprovalDoc(h, rc, ts, lg, a, logIdx) ==
  [doc_type |-> "approval", tx_hash |-> h, block_number |-> rc.blockNumber,
   timestamp |-> ts, token |-> lg.address, owner |-> a.owner,
   spender |-> a.spender, value |-> toString(a.value), log_index |-> logIdx]

AllowanceEdgeDoc(h, rc, ts, lg, a) ==
  [doc_type |-> "allowance_edge", tx_hash |-> h, block_number |-> rc.blockNumber,
   timestamp |-> ts, token |-> lg.address, from |-> a.owner, to |-> a.spender,
   amount |-> toString(a.value)]

\* approvals.set(approvalKey, { amount: value, tx_hash: h })
RegisterApproval(aps, h, lg, a) ==
  MapSet(aps, ApprovalKey(lg.address, a.owner, a.spender),
         [amount |-> a.value, tx_hash |-> h])

RECURSIVE ApprovalLoop(_, _, _, _, _)
\* for (let logIdx = 0; ...) of ERC20 APPROVALS, from log k (logIdx = k - 1)
ApprovalLoop(h, rc, ts, k, acc) ==
  IF k > Len(rc.logs) THEN acc
  ELSE LET lg == rc.logs[k]
           d == decodeApprovalEvent(lg)
       IN IF d = <<>> THEN ApprovalLoop(h, rc, ts, k + 1, acc)
          ELSE ApprovalLoop(h, rc, ts, k + 1,
                 [approvals |-> RegisterApproval(acc.approvals, h, lg, d[1]),
                  out |-> acc.out \o
                     << W("approvals", ApprovalDoc(h, rc, ts, lg, d[1], k - 1)),
                        W("allowance_edges", AllowanceEdgeDoc(h, rc, ts, lg, d[1])) >>])

RECURSIVE ScanApprovalsAnyOwner(_, _, _, _)
\* ScanApprovals with the owner comparison left out ("any approval involving
\* this token" for the caller)
ScanApprovalsAnyOwner(aps, e, tr, txFrom) ==
  IF e > Len(aps) THEN [hit |-> 0, threw |-> FALSE]
  ELSE LET key == aps[e][1] IN
       IF toLowerCase(key[1]) # toLowerCase(tr.tokenAddr)
       THEN ScanApprovalsAnyOwner(aps, e + 1, tr, txFrom)
       ELSE IF txFrom = NULL THEN [hit |-> 0, threw |-> TRUE]
       ELSE IF toLowerCase(key[3]) # toLowerCase(txFrom)
       THEN ScanApprovalsAnyOwner(aps, e + 1, tr, txFrom)
       ELSE [hit |-> e, threw |-> FALSE]

RECURSIVE ScanApprovalsExactCase(_, _, _, _)
\* ScanApprovals comparing the key's parts with === and no toLowerCase()
ScanApprovalsExactCase(aps, e, tr, txFrom) ==
  IF e > Len(aps) THEN [hit |-> 0, threw |-> FALSE]
  ELSE LET key == aps[e][1] IN
       IF key[1] # tr.tokenAddr \/ key[2] # Tmpl(tr.from) \/ key[3] # Tmpl(txFrom)
       THEN ScanApprovalsExactCase(aps, e + 1, tr, txFrom)
       ELSE [hit |-> e, threw |-> FALSE]

RECURSIVE ScanApprovals(_, _, _, _)
\* for (const [key, approval] of approvals.entries()) from entry e: the index
\* of the first entry the three-way comparison accepts (0: none), or a throw
\* when .toLowerCase() is called on null
ScanApprovals(aps, e, tr, txFrom) ==
  IF e > Len(aps) THEN [hit |-> 0, threw |-> FALSE]
  ELSE LET key == aps[e][1] IN
       IF toLowerCase(key[1]) # toLowerCase(tr.tokenAddr)
       THEN ScanApprovals(aps, e + 1, tr, txFrom)
       ELSE IF tr.from = NULL THEN [hit |-> 0, threw |-> TRUE]
       ELSE IF toLowerCase(key[2]) # toLowerCase(tr.from)
       THEN ScanApprovals(aps, e + 1, tr, txFrom)
       ELSE IF txFrom = NULL THEN [hit |-> 0, threw |-> TRUE]
       ELSE IF toLowerCase(key[3]) # toLowerCase(txFrom)
       THEN ScanApprovals(aps, e + 1, tr, txFrom)
       ELSE [hit |-> e, threw |-> FALSE]

AllowanceUsageDoc(h, tx, rc, ts, tr, approval) ==
  [doc_type |-> "allowance_usage", token |-> tr.tokenAddr, owner |-> tr.from,
   spender |-> tx.from, approved_amount |-> toString(approval.amount),
   used_amount |-> toString(tr.amount), approval_tx_hash |-> approval.tx_hash,
   drain_tx_hash |-> h, block_number |-> rc.blockNumber, timestamp |-> ts]

RECURSIVE UsageLoop(_, _, _, _, _, _, _, _)
\* for (const { from, to, amount, tokenAddr } of transfers) from transfer t
UsageLoop(h, tx, rc, ts, transfers, aps, t, acc) ==
  IF t > Len(transfers) \/ acc.threw THEN acc
  ELSE LET s == ScanApprovals(aps, 1, transfers[t], tx.from) IN
       IF s.threw THEN [acc EXCEPT !.threw = TRUE]
       ELSE UsageLoop(h, tx, rc, ts, transfers, aps, t + 1,
              IF s.hit = 0 THEN acc
              ELSE [acc EXCEPT !.out = Append(@,
                      W("allowance_usage",
                        AllowanceUsageDoc(h, tx, rc, ts, transfers[t],
                                          aps[s.hit][2])))])

\* if (methodId && methodId.toLowerCase() === "0x23b872dd") { ... }
UsageSection(h, tx, rc, ts, transfers, aps, o) ==
  IF toLowerCase(MethodId(tx)) = "0x23b872dd"
  THEN UsageLoop(h, tx, rc, ts, transfers, aps, 1, [out |-> o, threw |-> FALSE])
  ELSE [out |-> o, threw |-> FALSE]

\* Lines 1008-1149: everything of the loop body after the trace fetch
AfterTrace(h, tx, rc, ts, trace, transfers, o, pf, aps) ==
  LET w == TraceSection(h, rc, ts, trace, [out |-> o, prof |-> pf])
      a == ApprovalLoop(h, rc, ts, 1,
             [approvals |-> aps, out |-> w.out \o RevertWrites(h, rc, ts, trace)])
      u == UsageSection(h, tx, rc, ts, transfers, a.approvals, a.out)
  IN [out |-> u.out, prof |-> w.prof, approvals |-> a.approvals, threw |-> u.threw]

\* ------------------------------------------------------------------- flush
ProfileDoc(p) == [doc_type |-> "address_profile"] @@ p

MethodStatDoc(s) ==
  [doc_type |-> "method_stat", to |-> s.to, method_id |-> s.method_id,
   count |-> s.count, success_count |-> s.success_count,
   revert_count |-> s.revert_count, unique_callers |-> Len(s.callers),
   first_seen_ts |-> s.first_seen_ts, last_seen_ts |-> s.last_seen_ts]

\* "Flush profiles" then "Flush method stats": one write per Map value, in
\* the Maps' iteration order
FlushWrites(pf, ms) ==
  [k \in 1..Len(pf) |-> W("address_profile", ProfileDoc(pf[k][2]))] \o
  [k \in 1..Len(ms) |-> W("method_stats", MethodStatDoc(ms[k][2]))]

\* ------------------------------------------------------ the chain provider
\* What ethers.provider can answer.  A provider is [entries, faults, traces]:
\* the transactions (with their receipts) a hash may stand for, the ways a
\* fetch may fail, and the shapes debug_traceTransaction may return.

RECURSIVE HexOf(_)
\* the hex digits of n, as the node prints a quantity ("0x0" for zero)
HexOf(n) == IF n < 16 THEN <<n>> ELSE HexOf(n \div 16) \o <<n % 16>>

MkTx(from, to, value, sel) ==
  [from |-> from, to |-> to, value |-> value, data |-> <<sel, "">>, gasPrice |-> 2]

MkRc(status, logs) ==
  [status |-> status, blockNumber |-> 0, blockHash |-> 0, gasUsed |-> 21,
   logs |-> logs, transactionIndex |-> 0, revertReason |-> <<>>]

MkLog(address, topics, data, logIndex) ==
  [address |-> address, topics |-> topics, data |-> data, logIndex |-> logIndex]

TransferLog(token, from, to, data, logIndex) ==
  MkLog(token, <<TRANSFER_TOPIC0, AddrTopic(from), AddrTopic(to)>>, data, logIndex)

ApprovalLog(token, owner, spender, data, logIndex) ==
  MkLog(token, <<APPROVAL_TOPIC0, AddrTopic(owner), AddrTopic(spender)>>, data, logIndex)

Entry(tx, rc) == [tx |-> tx, rc |-> rc]

\* Transactions of a chain whose logs are well formed (string topics, hex
\* data): plain value transfers, a contract creation, a reverted call,
\* approvals (topics in either letter case), transferFrom calls and a
\* token transfer.
ChainEntries ==
  { Entry(MkTx("A", "B", 1000, "0x"), MkRc(1, <<>>)),
    Entry(MkTx("A", NULL, 1000, "0x60806040"), MkRc(1, <<>>)),
    Entry(MkTx("A", "B", 0, "0xd0e30db0"), MkRc(0, <<>>)),
    Entry(MkTx("C", "T", 0, "0x095ea7b3"),
          MkRc(1, <<ApprovalLog("T", "c", "d", <<12, 8>>, 0)>>)),
    Entry(MkTx("C", "T", 0, "0x095ea7b3"),
          MkRc(1, <<ApprovalLog("T", "C", "D", <<1, 2, 12>>, 0)>>)),
    Entry(MkTx("D", "T", 0, "0x23b872dd"),
          MkRc(1, <<TransferLog("T", "c", "d", <<3, 2>>, 0)>>)),
    Entry(MkTx("D", "T", 0, "0x23b872dd"),
          MkRc(1, <<TransferLog("T", "b", "d", <<3, 2>>, 0),
                    TransferLog("T", "c", "d", <<3, 3>>, 1)>>)),
    Entry(MkTx("D", "T", 0, "0x23b872dd"),
          MkRc(1, <<TransferLog("T", "c", "d", <<3, 2>>, 0),
                    ApprovalLog("T", "c", "d", <<9, 6>>, 1)>>)),
    Entry(MkTx("C", "T", 0, "0xac9650d8"),
          MkRc(1, <<ApprovalLog("T", "c", "d", <<12, 8>>, 0),
                    ApprovalLog("T", "C", "D", <<1, 2, 12>>, 1)>>)),
    Entry(MkTx("B", "T", 0, "0xa9059cbb"),
          MkRc(1, <<TransferLog("T", "b", "c", <<1, 15, 4>>, 0)>>)) }

\* the root call of tx as a call tracer reports it (lowercase addresses;
\* "u" is the address a creation deploys to), with the given sub-calls
RootCall(tx, calls) ==
  [from |-> toLowerCase(tx.from),
   to |-> IF tx.to = NULL THEN "u" ELSE toLowerCase(tx.to),
   input |-> tx.data, value |-> <<HexOf(tx.value)>>,
   type |-> IF tx.to = NULL THEN "CREATE" ELSE "CALL",
   calls |-> calls, revertReason |-> <<>>, output |-> <<>>]

\* an internal call of the callee that forwards 7 wei to "c"
InnerCall(tx) ==
  [from |-> IF tx.to = NULL THEN "u" ELSE toLowerCase(tx.to), to |-> "c",
   input |-> <<>>, value |-> <<(<<7>>)>>, type |-> "CALL", calls |-> <<>>,
   revertReason |-> <<>>, output |-> <<>>]

\* a sub-call from `from` to `to` of the given kind, value and sub-calls
SubCall(from, to, type, value, calls) ==
  [from |-> from, to |-> to, input |-> <<>>, value |-> value, type |-> type,
   calls |-> calls, revertReason |-> <<>>, output |-> <<>>]

\* sub-calls two levels deep, of several kinds: a DELEGATECALL (no value
\* field) that makes a CALL forwarding 5 wei, then a STATICCALL and a CREATE
\* carrying 3 wei
DeepCalls(tx) ==
  << SubCall(toLowerCase(Tmpl(tx.to)), "d", "DELEGATECALL", <<>>,
             << SubCall(toLowerCase(Tmpl(tx.to)), "c", "CALL", <<(<<5>>)>>, <<>>) >>),
     SubCall(toLowerCase(Tmpl(tx.to)), "t", "STATICCALL", <<(<<0>>)>>, <<>>),
     SubCall(toLowerCase(Tmpl(tx.to)), "u", "CREATE", <<(<<3>>)>>, <<>>) >>

\* sub-calls with a field missing: a CREATE that failed (the tracer reports
\* no `to`) carrying 7 wei, and a node without `type` carrying 3 wei
PartialCalls(tx) ==
  << SubCall(toLowerCase(Tmpl(tx.to)), NULL, "CREATE", <<(<<7>>)>>, <<>>),
     SubCall(toLowerCase(Tmpl(tx.to)), "c", NULL, <<(<<3>>)>>, <<>>) >>

\* the 32-byte big-endian word of n < 65536
Word(n) == [k \in 1..32 |-> IF k = 32 THEN n % 256 ELSE IF k = 31 THEN n \div 256 ELSE 0]

\* bytes padded with zeros to a multiple of 32
PadRight(bytes) == bytes \o [k \in 1..((32 - (Len(bytes) % 32)) % 32) |-> 0]

\* the revert data of `revert("<str>")`: the Error(string) selector and the
\* ABI encoding of the string
ErrorOutput(str) == ERROR_SELECTOR \o Word(32) \o Word(Len(str)) \o PadRight(str)

\* the revert data of a panic: the Panic(uint256) selector and the code
PanicOutput(code) == PANIC_SELECTOR \o Word(code)

\* "INSUFFICIENT"
INSUFFICIENT == <<73, 78, 83, 85, 70, 70, 73, 67, 73, 69, 78, 84>>

\* the panic codes a node may report: the seven the compiler documents with
\* a name here, and two others
PanicCodes == {1, 17, 18, 33, 34, 65, 81, 0, 5}

\* the reason a tracer may attach to a reverted call: none, or "out of gas"
TraceReasons == {<<>>, <<111, 117, 116, 32, 111, 102, 32, 103, 97, 115>>}

\* the output a tracer may report for a reverted call: none, the encodings
\* of Error("INSUFFICIENT") and Error(""), an Error selector with nothing
\* after it, with a truncated payload, with a string that is no UTF-8, the
\* panics, a Panic selector alone, a custom error, and a value that is no
\* string
TraceOutputs ==
  { <<>>, <<ErrorOutput(INSUFFICIENT)>>, <<ErrorOutput(<<>>)>>, <<ERROR_SELECTOR>>,
    <<ERROR_SELECTOR \o Word(32)>>, <<ErrorOutput(<<255>>)>>,
    <<PANIC_SELECTOR>>, <<(<<18, 52, 86, 120>>) \o Word(1)>>, <<(<<256>>)>> }
    \cup { <<PanicOutput(c)>> : c \in PanicCodes }

\* the root call of a reverted tx with the given reason and output
RevertedCall(tx, reason, output) ==
  [RootCall(tx, <<>>) EXCEPT !.revertReason = reason, !.output = output]

\* debug_traceTransaction's possible outcomes for tx
TraceResponses(shapes, tx) ==
  { r \in { [shape |-> "reverted", result |-> <<RevertedCall(tx, x, o)>>] :
              x \in TraceReasons, o \in TraceOutputs } \cup
          { [shape |-> "throws", result |-> <<>>],
            [shape |-> "null", result |-> <<>>],
            [shape |-> "root", result |-> <<RootCall(tx, <<>>)>>],
            [shape |-> "nested", result |-> <<RootCall(tx, <<InnerCall(tx)>>)>>],
            [shape |-> "deep", result |-> <<RootCall(tx, DeepCalls(tx))>>],
            [shape |-> "partial", result |-> <<RootCall(tx, PartialCalls(tx))>>] } :
      r.shape \in shapes }

\* ethers.provider.send("debug_traceTransaction", [txHash, { tracer }]) and
\* how the node settled it: "throws" (rejected), "null", or "value"
Request(txHash, tracer, shape) ==
  [tx_hash |-> txHash, tracer |-> tracer,
   result |-> IF shape \in {"throws", "null"} THEN shape ELSE "value"]

\* tryCallTrace without its try/catch: a rejected request propagates
tryCallTraceNoCatch(resp) ==
  IF resp.shape = "throws" THEN [threw |-> TRUE, value |-> <<>>]
  ELSE [threw |-> FALSE, value |-> resp.result]

\* tryCallTrace: try { return await send(...) } catch (_) { return null }:
\* the tracer's answer, null when the request rejects; nothing escapes
tryCallTrace(resp) ==
  IF resp.shape = "throws" THEN [threw |-> FALSE, value |-> <<>>]
  ELSE [threw |-> FALSE, value |-> resp.result]

\* the receipt and block of the transaction at position k of the sequence:
\* one block per transaction, timestamps growing with the block number
RcAt(rc, k) == [rc EXCEPT !.blockNumber = k, !.blockHash = k]

BlockAt(k) == [number |-> k, timestamp |-> 100 + k]

\* the loop walking the identifiers from the last to the first
HashAtReversed(hashes, k) == hashes[Len(hashes) - k + 1]

\* const h = txHashes[i]
HashAt(hashes, k) == hashes[k]

\* the entries the hash at position k may stand for: any entry of the
\* provider, or the one its script fixes for that position
EntriesAt(p, k) == IF p.script = <<>> THEN p.entries ELSE {p.script[k]}

ChainProvider ==
  [entries |-> ChainEntries, script |-> <<>>,
   faults |-> {"ok", "null", "throws"}, blockFaults |-> {"ok", "throws"},
   traces |-> {"throws", "null", "root", "nested"}]

\* Transactions of a chain on which non-conforming contracts emit logs that
\* carry the Transfer / Approval signature with a payload that does not
\* decode: data that is no hexadecimal integer (16 stands for a character
\* that is no hex digit), or a topic that is no string (<<>>).  The first
\* entry is well formed.
MalformedEntries ==
  { Entry(MkTx("B", "T", 0, "0xa9059cbb"),
          MkRc(1, <<TransferLog("T", "b", "c", <<1, 15, 4>>, 0)>>)),
    Entry(MkTx("B", "T", 0, "0xa9059cbb"),
          MkRc(1, <<TransferLog("T", "b", "c", <<16, 16>>, 0),
                    TransferLog("T", "b", "c", <<3, 2>>, 1)>>)),
    Entry(MkTx("B", "T", 0, "0xa9059cbb"),
          MkRc(1, <<MkLog("T", <<TRANSFER_TOPIC0, <<>>, AddrTopic("c")>>, <<3, 2>>, 0),
                    TransferLog("T", "b", "c", <<3, 3>>, 1)>>)),
    Entry(MkTx("C", "T", 0, "0x095ea7b3"),
          MkRc(1, <<ApprovalLog("T", "c", "d", <<16, 16>>, 0),
                    ApprovalLog("T", "c", "d", <<12, 8>>, 1)>>)),
    Entry(MkTx("D", "T", 0, "0x23b872dd"),
          MkRc(1, <<ApprovalLog("T", "c", "d", <<12, 8>>, 0),
                    MkLog("T", <<TRANSFER_TOPIC0, <<>>, AddrTopic("d")>>, <<3, 2>>, 1)>>)) }

\* a provider whose fetches always succeed and whose logs may be malformed
MalformedProvider ==
  [entries |-> MalformedEntries, script |-> <<>>,
   faults |-> {"ok"}, blockFaults |-> {"ok"}, traces |-> {"null", "root"}]

\* A chain holding exactly three transactions, in this order: A sends B
\* 1000 wei; B calls token T, which logs Transfer(B, C, 500); C calls T,
\* which logs Approval(C, D, 200).  Every fetch succeeds; a call trace may
\* or may not be available for each of them.
ScenarioProvider ==
  [entries |-> {},
   script |-> << Entry(MkTx("A", "B", 1000, "0x"), MkRc(1, <<>>)),
                 Entry(MkTx("B", "T", 0, "0xa9059cbb"),
                       MkRc(1, <<TransferLog("T", "b", "c", <<1, 15, 4>>, 0)>>)),
                 Entry(MkTx("C", "T", 0, "0x095ea7b3"),
                       MkRc(1, <<ApprovalLog("T", "c", "d", <<12, 8>>, 0)>>)) >>,
   faults |-> {"ok"}, blockFaults |-> {"ok"},
   traces |-> {"throws", "null", "root", "nested"}]

\* A chain whose node answers debug_traceTransaction with call trees of
\* every shape: calls to B with and without value; every fetch succeeds.
TracesProvider ==
  [entries |-> { Entry(MkTx("A", "B", 1000, "0x"), MkRc(1, <<>>)),
                 Entry(MkTx("A", "B", 0, "0xd0e30db0"), MkRc(1, <<>>)) },
   script |-> <<>>, faults |-> {"ok"}, blockFaults |-> {"ok"},
   traces |-> {"null", "root", "nested", "deep", "partial"}]

\* the topic of an indexed uint256 (a token id)
UintTopic(n) == <<"000000000000000000000000", n>>

\* A chain with a contract T that emits the ERC-721 events: Transfer and
\* Approval with the ERC-20 signatures but a third indexed argument (four
\* topics, empty data) -- next to ordinary three-topic Transfer and Approval
\* logs.  Every fetch succeeds.
Erc721Provider ==
  [entries |->
     { Entry(MkTx("B", "T", 0, "0xa9059cbb"),
             MkRc(1, <<TransferLog("T", "b", "c", <<1, 15, 4>>, 0)>>)),
       Entry(MkTx("B", "T", 0, "0x42842e0e"),
             MkRc(1, <<MkLog("T", <<TRANSFER_TOPIC0, AddrTopic("b"), AddrTopic("c"),
                                    UintTopic("1")>>, <<>>, 0)>>)),
       Entry(MkTx("C", "T", 0, "0x095ea7b3"),
             MkRc(1, <<MkLog("T", <<APPROVAL_TOPIC0, AddrTopic("c"), AddrTopic("d"),
                                    UintTopic("1")>>, <<>>, 0),
                       ApprovalLog("T", "b", "d", <<12, 8>>, 1)>>)),
       Entry(MkTx("D", "T", 0, "0x23b872dd"),
             MkRc(1, <<MkLog("T", <<TRANSFER_TOPIC0, AddrTopic("c"), AddrTopic("d"),
                                    UintTopic("1")>>, <<>>, 0)>>)) },
   script |-> <<>>, faults |-> {"ok"}, blockFaults |-> {"ok"},
   traces |-> {"null", "root"}]

\* A chain of reverted calls: the receipt carries no reason or the reason
\* "reverted", and the tracer, when it answers, reports any of the reasons
\* and outputs above.  Every fetch succeeds.
RevertsProvider ==
  [entries |->
     { Entry(MkTx("A", "B", 0, "0xd0e30db0"), MkRc(0, <<>>)),
       Entry(MkTx("A", "B", 0, "0xd0e30db0"),
             [MkRc(0, <<>>) EXCEPT !.revertReason = <<114, 101, 118, 101, 114, 116, 101, 100>>]) },
   script |-> <<>>, faults |-> {"ok"}, blockFaults |-> {"ok"},
   traces |-> {"null", "reverted"}]

\* A chain of two transactions -- A sends B 1000 wei; B calls token T, which
\* logs Transfer(B, C, 500) -- on a node whose fetches resolve (a transaction
\* or receipt may come back null) and whose tracers may be unsupported
\* (the request rejects), answer null, or answer.
RunProvider ==
  [entries |-> {},
   script |-> << Entry(MkTx("A", "B", 1000, "0x"), MkRc(1, <<>>)),
                 Entry(MkTx("B", "T", 0, "0xa9059cbb"),
                       MkRc(1, <<TransferLog("T", "b", "c", <<1, 15, 4>>, 0)>>)) >>,
   faults |-> {"ok", "null"}, blockFaults |-> {"ok"},
   traces |-> {"throws", "null", "root"},
   prestates |-> {"throws", "null", "object"}]

\* the provider of the given name
Provider(name) ==
  CASE name = "chain" -> ChainProvider
    [] name = "run" -> RunProvider
    [] name = "malformed" -> MalformedProvider
    [] name = "scenario" -> ScenarioProvider
    [] name = "traces" -> TracesProvider
    [] name = "erc721" -> Erc721Provider
    [] name = "reverts" -> RevertsProvider

\* ------------------------------------------------------------ ndjsonWriter
\* The closure state of one ndjsonWriter: shardSize, shard, count, the files
\* created so far (files[k] is the content of the file of index k - 1, one
\* element per line), stream (the position in files of the file the open
\* stream appends to) and whether end() was called on that stream.

\* openNew(): end the open stream, create the next file, shard += 1, count = 0
openNew(st) ==
  [st EXCEPT !.files = Append(@, <<>>), !.stream = Len(st.files) + 1,
             !.shard = @ + 1, !.count = 0, !.ended = FALSE]

\* ndjsonWriter whose constructor leaves the first file to the first write
ndjsonWriterLazy(size) ==
  [shardSize |-> size, shard |-> 0, count |-> size, files |-> <<>>,
   stream |-> 0, ended |-> FALSE]

\* ndjsonWriter(dir, name, shardSize): the state after the constructor's
\* call of openNew()
ndjsonWriter(size) ==
  openNew([shardSize |-> size, shard |-> 0, count |-> 0, files |-> <<>>,
           stream |-> 0, ended |-> FALSE])

\* write(obj) rolling over one record late (count > shardSize)
writeLateRoll(st, obj) ==
  LET s1 == IF st.count > st.shardSize THEN openNew(st) ELSE st
  IN [s1 EXCEPT !.files[s1.stream] = Append(@, obj), !.count = @ + 1]

\* write(obj): if (count >= shardSize) openNew(); stream.write(line); count += 1
write(st, obj) ==
  LET s1 == IF st.count >= st.shardSize THEN openNew(st) ELSE st
  IN [s1 EXCEPT !.files[s1.stream] = Append(@, obj), !.count = @ + 1]

\* end(): if (stream) stream.end()
endWriter(st) == IF st.stream # 0 THEN [st EXCEPT !.ended = TRUE] ELSE st

\* const SHARD_SIZE = envInt("SHARD_SIZE", 5000)
SHARD_SIZE == 5000

\* ------------------------------------------------------------------- state
VARIABLES
  provider,     \* the name of the chain provider (fixed during a run)
  txHashes,     \* the transaction identifiers handed to the DERIVE stage
  i,            \* the loop counter (1-based here)
  pc,           \* the await main() is suspended at, or "done" / "exit1"
  node,         \* the chain's entry for txHashes[i]
  tx, rc, ts,   \* the loop body's tx, rc (<<>> is null) and ts
  transfers,    \* the loop body's local `transfers` array
  trace,        \* the loop body's local `trace` (<<>> is null)
  failures,     \* main()'s `failures` array
  err,          \* the exception main().catch printed, NULL if none
  prof,         \* Map address -> profile
  methodStats,  \* Map `${to}|${methodId}` -> stat
  approvals,    \* Map `${token}|${owner}|${spender}` -> {amount, tx_hash}
  out,          \* every write() call so far, in order
  ended,        \* the writers on which end() was called
  sink,         \* one ndjsonWriter taken on its own: its closure state
  written,      \* the objects handed to sink's write(), in order
  sent,         \* every debug_traceTransaction request so far, in order
  snapAddrs,    \* the RAW stage's `snapAddrs` Set, in insertion order
  observedEOAs, \* the RAW stage's `observedEOAs` counter
  script,       \* the pipeline script that runs: "v1" (pipeline_all.js) or "v2"
  truth,        \* main()'s `truth` object
  fsys,         \* the files under ABI/, TEAM_BUNDLE/ and RESEARCH_BUNDLE/
  disk,         \* what has reached the disk of sink's files, file by file
  bundled,      \* the copy of sink's files taken for a bundle (<<>>: none yet)
  automine,     \* the simulation node's automine switch
  mempool,      \* the node's pending transactions, in arrival order
  blocks,       \* the blocks the node mined, each the sequence of its transactions
  sends,        \* the simulation's send promises: tag -> state
  world,        \* the EVM's state: ETH balances and the two contracts' storage
  stack,        \* the EVM's call stack, the running frame last
  entered,      \* every function a transaction entered, in order
  receipt       \* the transaction's outcome, NULL while it runs

vars == << provider, txHashes, i, pc, node, tx, rc, ts, transfers, trace,
           failures, err, prof, methodStats, approvals, out, ended,
           sink, written, sent, snapAddrs, observedEOAs, script, truth, fsys,
           disk, bundled, automine, mempool, blocks, sends,
           world, stack, entered, receipt >>

\* the disk under the writer taken on its own
flushVars == << disk, bundled >>

\* the node and the promises of simulate_10k.js
simVars == << automine, mempool, blocks, sends >>

\* one transaction's execution by the EVM
evmVars == << world, stack, entered, receipt >>

\* the node before the simulation loop: automine on, nothing pending
SimIdle == automine = TRUE /\ mempool = <<>> /\ blocks = <<>> /\ sends = <<>>

\* the EVM executing nothing
EvmIdle == world = <<>> /\ stack = <<>> /\ entered = <<>> /\ receipt = NULL

\* the state of the stages before and after RAW / DERIVE
aside == << script, truth, fsys, flushVars, simVars, evmVars >>

\* that state before those stages have run
AsideInit ==
  /\ script = "v2"
  /\ truth = [attackers |-> <<>>]
  /\ fsys = [ABI |-> {}, TEAM |-> {}, RESEARCH |-> {}]
  /\ disk = <<>> /\ bundled = <<>>
  /\ SimIdle /\ EvmIdle

\* the writers created at lines 742-765
DerivedWriters ==
  { "tx_enriched", "block_tx_order", "contract_calls", "asset_transfers",
    "internal_native_transfers", "fund_flow_edges", "address_profile",
    "method_stats", "trace_edges", "revert_reasons", "approvals",
    "allowance_edges", "allowance_usage", "admin_changes",
    "critical_slot_deltas", "token_balance_deltas", "mempool_observed" }

NoEntry == Entry(MkTx(NULL, NULL, 0, "0x"), MkRc(0, <<>>))

\* the state in which the DERIVE loop is entered with hashes 1..n
InitWith(p, n) ==
  /\ provider = p
  /\ txHashes = [k \in 1..n |-> k]
  /\ i = 1
  /\ pc = IF n = 0 THEN "mempool" ELSE "getTransaction"
  /\ node = NoEntry
  /\ tx = <<>> /\ rc = <<>> /\ ts = NoNum
  /\ transfers = <<>>
  /\ trace = <<>>
  /\ failures = <<>>
  /\ err = NULL
  /\ prof = <<>> /\ methodStats = <<>> /\ approvals = <<>>
  /\ out = <<>>
  /\ ended = {}
  /\ sink = ndjsonWriter(SHARD_SIZE)
  /\ written = <<>>
  /\ sent = <<>>
  /\ snapAddrs = <<>> /\ observedEOAs = 0
  /\ AsideInit

Init == \E n \in 0..NumTx : InitWith("chain", n)

\* the end of one iteration with the flush placed inside the loop body
AdvanceFlushEach(o, pf, ms) ==
  /\ i' = i + 1
  /\ prof' = pf
  /\ methodStats' = ms
  /\ out' = o \o FlushWrites(pf, ms)
  /\ pc' = IF i + 1 > Len(txHashes) THEN "mempool" ELSE "getTransaction"

\* the end of one iteration (also `continue`): i++, and when the sequence is
\* exhausted the profiles and method stats are flushed before main() next
\* suspends
Advance(o, pf, ms) ==
  /\ i' = i + 1
  /\ prof' = pf
  /\ methodStats' = ms
  /\ IF i + 1 > Len(txHashes)
     THEN out' = o \o FlushWrites(pf, ms) /\ pc' = "mempool"
     ELSE out' = o /\ pc' = "getTransaction"

\* main().catch((e) => { console.error(e); process.exit(1) })
Crash(e) == pc' = "exit1" /\ err' = e

\* const tx = await ethers.provider.getTransaction(h) resolves or rejects
GetTransaction ==
  /\ pc = "getTransaction"
  /\ UNCHANGED aside
  /\ UNCHANGED << sink, written, sent, snapAddrs, observedEOAs >>
  /\ \E f \in Provider(provider).faults, e \in EntriesAt(Provider(provider), i) :
       IF f = "throws"
       THEN /\ Crash("getTransaction rejected")
            /\ UNCHANGED << provider, txHashes, i, node, tx, rc, ts, transfers,
                            trace, failures, prof, methodStats, approvals, out,
                            ended >>
       ELSE /\ node' = IF f = "null" THEN NoEntry ELSE e
            /\ tx' = IF f = "null" THEN <<>> ELSE <<e.tx>>
            /\ pc' = "getTransactionReceipt"
            /\ UNCHANGED << provider, txHashes, i, rc, ts, transfers, trace,
                            failures, err, prof, methodStats, approvals, out,
                            ended >>

\* const rc = await ethers.provider.getTransactionReceipt(h), then
\* if (!tx || !rc) continue
GetTransactionReceipt ==
  /\ pc = "getTransactionReceipt"
  /\ UNCHANGED aside
  /\ UNCHANGED << sink, written, sent, snapAddrs, observedEOAs >>
  /\ \E f \in Provider(provider).faults :
       IF f = "throws"
       THEN /\ Crash("getTransactionReceipt rejected")
            /\ UNCHANGED << provider, txHashes, i, node, tx, rc, ts, transfers,
                            trace, failures, prof, methodStats, approvals, out,
                            ended >>
       ELSE LET r == IF f = "null" \/ tx = <<>> THEN <<>> ELSE <<RcAt(node.rc, i)>>
            IN /\ rc' = r
               /\ IF tx = <<>> \/ r = <<>>
                  THEN Advance(out, prof, methodStats)
                  ELSE /\ pc' = "getBlock"
                       /\ UNCHANGED << i, prof, methodStats, out >>
               /\ UNCHANGED << provider, txHashes, node, tx, ts, transfers,
                               trace, failures, err, approvals, ended >>

\* const blk = await ethers.provider.getBlock(rc.blockHash), then the loop
\* body down to the call of tryCallTrace
GetBlock ==
  /\ pc = "getBlock"
  /\ UNCHANGED aside
  /\ UNCHANGED << sink, written, sent, snapAddrs, observedEOAs >>
  /\ \E f \in Provider(provider).blockFaults :
       IF f = "throws"
       THEN /\ Crash("getBlock rejected")
            /\ UNCHANGED << provider, txHashes, i, node, tx, rc, ts, transfers,
                            trace, failures, prof, methodStats, approvals, out,
                            ended >>
       ELSE LET blk == IF f = "null" THEN <<>> ELSE <<BlockAt(rc[1].blockHash)>>
                b == BeforeTrace(HashAt(txHashes, i), tx[1], rc[1], Timestamp(blk),
                                 out, prof, methodStats)
            IN /\ ts' = Timestamp(blk)
               /\ out' = b.out
               /\ prof' = b.prof
               /\ methodStats' = b.methodStats
               /\ transfers' = b.transfers
               /\ IF b.threw
                  THEN Crash("SyntaxError: Cannot convert to a BigInt")
                  ELSE pc' = "tryCallTrace" /\ err' = err
               /\ UNCHANGED << provider, txHashes, i, node, tx, rc, trace,
                               failures, approvals, ended >>

\* const trace = await tryCallTrace(h), then the rest of the loop body and
\* the loop's next step
TryCallTrace ==
  /\ pc = "tryCallTrace"
  /\ UNCHANGED aside
  /\ UNCHANGED << sink, written, snapAddrs, observedEOAs >>
  /\ \E resp \in TraceResponses(Provider(provider).traces, tx[1]) :
       LET t == tryCallTrace(resp)
           a == AfterTrace(HashAt(txHashes, i), tx[1], rc[1], ts, t.value,
                           transfers, out, prof, approvals)
       IN /\ sent' = Append(sent, Request(HashAt(txHashes, i), "callTracer", resp.shape))
          /\ IF t.threw
             THEN /\ Crash("debug_traceTransaction rejected")
                  /\ UNCHANGED << provider, txHashes, i, node, tx, rc, ts, transfers,
                                  trace, failures, prof, methodStats, approvals, out,
                                  ended >>
             ELSE /\ trace' = t.value
                  /\ approvals' = a.approvals
                  /\ IF a.threw
                     THEN /\ Crash("TypeError: Cannot read properties of null")
                          /\ out' = a.out
                          /\ prof' = a.prof
                          /\ UNCHANGED << i, methodStats >>
                     ELSE Advance(a.out, a.prof, methodStats) /\ err' = err
                  /\ UNCHANGED << provider, txHashes, node, tx, rc, ts, transfers,
                                  failures, ended >>

\* the mempool capture (at most one pending transaction is recorded here)
\* and "End writers": end() on every DERIVED writer
EndWriters ==
  /\ pc = "mempool"
  /\ UNCHANGED aside
  /\ UNCHANGED << sink, written, sent, snapAddrs, observedEOAs >>
  /\ \E pending \in {0, 1} :
       out' = out \o [k \in 1..pending |->
                        W("mempool_observed",
                          [doc_type |-> "mempool_pending",
                           source |-> "eth_pendingTransactions"])]
  /\ ended' = ended \cup DerivedWriters
  /\ pc' = "done"
  /\ UNCHANGED << provider, txHashes, i, node, tx, rc, ts, transfers, trace,
                  failures, err, prof, methodStats, approvals >>

Next == GetTransaction \/ GetTransactionReceipt \/ GetBlock \/ TryCallTrace \/ EndWriters

Spec == Init /\ [][Next]_vars

\* ------------------------------------------------- one writer on its own
\* the records a caller may hand to write()
SinkObjects == {[doc_type |-> "tx_enriched"], [doc_type |-> "asset_transfer"]}

\* a caller calls write(obj) on the writer
WriterWrite ==
  /\ pc = "writer"
  /\ UNCHANGED aside
  /\ ~sink.ended
  /\ Len(written) < MaxWrites
  /\ \E obj \in SinkObjects :
       /\ sink' = write(sink, obj)
       /\ written' = Append(written, obj)
  /\ UNCHANGED << provider, txHashes, i, pc, node, tx, rc, ts, transfers, trace,
                  failures, err, prof, methodStats, approvals, out, ended,
                  sent, snapAddrs, observedEOAs >>

\* the caller calls end() on the writer
WriterEnd ==
  /\ pc = "writer"
  /\ UNCHANGED aside
  /\ ~sink.ended
  /\ sink' = endWriter(sink)
  /\ UNCHANGED << provider, txHashes, i, pc, node, tx, rc, ts, transfers, trace,
                  failures, err, prof, methodStats, approvals, out, ended,
                  written, sent, snapAddrs, observedEOAs >>

\* a writer just constructed with a shard capacity of 1..MaxShard
InitWriter ==
  /\ provider = "chain"
  /\ txHashes = <<>>
  /\ i = 1
  /\ pc = "writer"
  /\ node = NoEntry
  /\ tx = <<>> /\ rc = <<>> /\ ts = NoNum
  /\ transfers = <<>>
  /\ trace = <<>>
  /\ failures = <<>>
  /\ err = NULL
  /\ prof = <<>> /\ methodStats = <<>> /\ approvals = <<>>
  /\ out = <<>>
  /\ ended = {}
  /\ \E size \in 1..MaxShard : sink = ndjsonWriter(size)
  /\ written = <<>>
  /\ sent = <<>>
  /\ snapAddrs = <<>> /\ observedEOAs = 0
  /\ AsideInit

NextWriter == WriterWrite \/ WriterEnd

SpecWriter == InitWriter /\ [][NextWriter]_vars

\* the DERIVE stage over a chain whose call traces take every shape
InitTraces == \E n \in 0..NumTx : InitWith("traces", n)

SpecTraces == InitTraces /\ [][Next]_vars

\* the DERIVE stage over a chain with four-topic Transfer / Approval logs
InitErc721 == \E n \in 0..NumTx : InitWith("erc721", n)

SpecErc721 == InitErc721 /\ [][Next]_vars

\* the DERIVE stage over a chain of reverted transactions
InitReverts == \E n \in 0..NumRevertTx : InitWith("reverts", n)

SpecReverts == InitReverts /\ [][Next]_vars

\* the DERIVE stage over the three transactions of the end-to-end scenario
InitScenario == InitWith("scenario", Len(ScenarioProvider.script))

SpecScenario == InitScenario /\ [][Next]_vars

\* the DERIVE stage over a chain with malformed logs and no fetch failures
InitMalformed == \E n \in 0..NumTx : InitWith("malformed", n)

SpecMalformed == InitMalformed /\ [][Next]_vars

\* ------------------------------------------- the run: RAW export, then DERIVE
\* const CHECKPOINT_EVERY = envInt("CHECKPOINT_EVERY", 500)
CHECKPOINT_EVERY == 500

\* const SNAPSHOT_USER_CAP = envInt("SNAPSHOT_USER_CAP", 120)
SNAPSHOT_USER_CAP == 120

\* the writers created at lines 559-569
RawWriters ==
  { "blocks", "txs", "receipts", "logs_events", "traces_call",
    "snapshots_balances", "state_diff", "token_balance_snapshots",
    "storage_snapshots", "codes", "token_meta" }

\* the object a prestate tracer answers with for transaction t: the sender's account
\* with its balance, and an entry for the callee that carries no object
PrestateOf(t) ==
  << <<toLowerCase(t.from), <<[balance |-> <<(<<3, 14, 8>>)>>]>> >>,
     <<toLowerCase(Tmpl(t.to)), <<>> >> >>

\* debug_traceTransaction's possible outcomes for a prestate-kind tracer
PrestateResponses(shapes, t) ==
  { r \in { [shape |-> "throws", result |-> <<>>],
            [shape |-> "null", result |-> <<>>],
            [shape |-> "object", result |-> <<PrestateOf(t)>>] } :
      r.shape \in shapes }

RECURSIVE DiffsFrom(_, _, _, _)
\* prestateToStateDiff's loop over Object.entries(prestateOutput) from entry k
DiffsFrom(entries, k, txHash, blockNumber) ==
  IF k > Len(entries) THEN <<>>
  ELSE LET addr == entries[k][1]
           stateInfo == entries[k][2]
       IN IF stateInfo = <<>>
          THEN DiffsFrom(entries, k + 1, txHash, blockNumber)
          ELSE LET bal == stateInfo[1].balance
                   balanceBeforeStr ==
                     IF bal = <<>> THEN <<0>>
                     ELSE IF BigIntThrows(bal[1]) THEN bal[1]
                     ELSE toString(BigIntHex(bal[1]))
               IN << [doc_type |-> "state_diff", tx_hash |-> txHash,
                      block_number |-> blockNumber, address |-> addr,
                      mode |-> "prestate_only",
                      balance_before |-> balanceBeforeStr] >>
                  \o DiffsFrom(entries, k + 1, txHash, blockNumber)

\* prestateToStateDiff(prestateOutput, txHash, blockNumber)
prestateToStateDiff(prestateOutput, txHash, blockNumber) ==
  IF prestateOutput = <<>> THEN <<>>
  ELSE DiffsFrom(prestateOutput[1], 1, txHash, blockNumber)

\* if (prestate) { for (const diff of stateDiffs) stateDiffW.write(...) }
StateDiffWrites(prestate, txHash, blockNumber) ==
  LET diffs == prestateToStateDiff(prestate, txHash, blockNumber)
  IN [k \in 1..Len(diffs) |-> W("state_diff", diffs[k])]

\* "Expand snapshot set": tx.from, then tx.to, join snapAddrs under the cap
ExpandSnapshotSet(st, a) ==
  IF a # NULL /\ st.observedEOAs < SNAPSHOT_USER_CAP
     /\ ~(\E k \in 1..Len(st.snapAddrs) : st.snapAddrs[k] = a)
  THEN [snapAddrs |-> Append(st.snapAddrs, a), observedEOAs |-> st.observedEOAs + 1]
  ELSE st

\* the balance a node reports for an address (every account holds 1000 wei)
BalanceOf(a, blockNum) == 1000

\* the balance checkpoint of transaction k: one snapshot per address of
\* snapAddrs whose getBalance resolved (ok), none where it rejected
CheckpointWrites(k, h, blockNum, addrs, ok) ==
  IF k % CHECKPOINT_EVERY = 0 \/ k = 1 \/ k = Len(txHashes)
  THEN LET hit == SelectSeq(addrs, LAMBDA a : a \in ok)
       IN [x \in 1..Len(hit) |->
             W("snapshots_balances",
               [doc_type |-> "balance_snapshot", at_block |-> blockNum,
                tx_hash |-> h, address |-> hit[x],
                balance_wei |-> toString(BalanceOf(hit[x], blockNum))])]
  ELSE <<>>

\* the end of one RAW iteration (also `continue`)
RawAdvance ==
  /\ i' = i + 1
  /\ pc' = IF i + 1 > Len(txHashes) THEN "raw.sections" ELSE "raw.getTransaction"

\* RAW: const tx = await ethers.provider.getTransaction(h)
RawGetTransaction ==
  /\ pc = "raw.getTransaction"
  /\ UNCHANGED aside
  /\ \E f \in Provider(provider).faults, e \in EntriesAt(Provider(provider), i) :
       /\ node' = IF f = "null" THEN NoEntry ELSE e
       /\ tx' = IF f = "null" THEN <<>> ELSE <<e.tx>>
  /\ pc' = "raw.getTransactionReceipt"
  /\ UNCHANGED << provider, txHashes, i, rc, ts, transfers, trace, failures,
                  err, prof, methodStats, approvals, out, ended, sink, written,
                  sent, snapAddrs, observedEOAs >>

\* RAW: const rc = await ethers.provider.getTransactionReceipt(h), then
\* if (!tx || !rc) continue, then "Expand snapshot set"
RawGetTransactionReceipt ==
  /\ pc = "raw.getTransactionReceipt"
  /\ UNCHANGED aside
  /\ \E f \in Provider(provider).faults :
       LET r == IF f = "null" \/ tx = <<>> THEN <<>> ELSE <<RcAt(node.rc, i)>>
       IN /\ rc' = r
          /\ IF tx = <<>> \/ r = <<>>
             THEN RawAdvance /\ UNCHANGED << snapAddrs, observedEOAs >>
             ELSE LET s0 == [snapAddrs |-> snapAddrs, observedEOAs |-> observedEOAs]
                      s2 == ExpandSnapshotSet(ExpandSnapshotSet(s0, tx[1].from), tx[1].to)
                  IN /\ snapAddrs' = s2.snapAddrs
                     /\ observedEOAs' = s2.observedEOAs
                     /\ pc' = "raw.getBlock"
                     /\ i' = i
  /\ UNCHANGED << provider, txHashes, node, tx, ts, transfers, trace, failures,
                  err, prof, methodStats, approvals, out, ended, sink, written,
                  sent >>

\* RAW: const block = await ethers.provider.getBlock(rc.blockHash), then the
\* writes of the tx, the receipt, the block (each block holds one
\* transaction, so it was not seen before) and the logs
RawGetBlock ==
  /\ pc = "raw.getBlock"
  /\ UNCHANGED aside
  /\ \E f \in Provider(provider).blockFaults :
       LET h == HashAt(txHashes, i)
           block == IF f = "null" THEN <<>> ELSE <<BlockAt(rc[1].blockHash)>>
       IN /\ ts' = Timestamp(block)
          /\ out' = out
               \o << W("txs", tx[1] @@ [doc_type |-> "tx"]),
                     W("receipts", rc[1] @@ [doc_type |-> "receipt"]) >>
               \o [k \in 1..Len(block) |-> W("blocks", block[k] @@ [doc_type |-> "block"])]
               \o [k \in 1..Len(rc[1].logs) |->
                     W("logs_events", rc[1].logs[k] @@ [doc_type |-> "log", tx_hash |-> h])]
  /\ pc' = "raw.tryCallTrace"
  /\ UNCHANGED << provider, txHashes, i, node, tx, rc, transfers, trace,
                  failures, err, prof, methodStats, approvals, ended, sink,
                  written, sent, snapAddrs, observedEOAs >>

\* RAW: const trace = await tryCallTrace(h); if (trace) tracesW.write(...)
RawTryCallTrace ==
  /\ pc = "raw.tryCallTrace"
  /\ UNCHANGED aside
  /\ \E resp \in TraceResponses(Provider(provider).traces, tx[1]) :
       LET h == HashAt(txHashes, i)
           t == tryCallTrace(resp)
       IN /\ sent' = Append(sent, Request(h, "callTracer", resp.shape))
          /\ trace' = t.value
          /\ out' = out \o [k \in 1..Len(t.value) |->
                              W("traces_call",
                                [doc_type |-> "trace_call", tx_hash |-> h,
                                 block_number |-> rc[1].blockNumber,
                                 trace |-> t.value[k]])]
  /\ pc' = "raw.prestateTracer"
  /\ UNCHANGED << provider, txHashes, i, node, tx, rc, ts, transfers, failures,
                  err, prof, methodStats, approvals, ended, sink, written,
                  snapAddrs, observedEOAs >>

\* RAW: tryPrestateTracer's first request, { tracer: "prestateTracer" }: its
\* answer is returned; a rejection leads to the second request
RawPrestateTracer ==
  /\ pc = "raw.prestateTracer"
  /\ UNCHANGED aside
  /\ \E resp \in PrestateResponses(Provider(provider).prestates, tx[1]) :
       LET h == HashAt(txHashes, i)
       IN /\ sent' = Append(sent, Request(h, "prestateTracer", resp.shape))
          /\ IF resp.shape = "throws"
             THEN pc' = "raw.stateDiffTracer" /\ out' = out
             ELSE /\ pc' = "raw.getBalance"
                  /\ out' = out \o StateDiffWrites(resp.result, h, rc[1].blockNumber)
  /\ UNCHANGED << provider, txHashes, i, node, tx, rc, ts, transfers, trace,
                  failures, err, prof, methodStats, approvals, ended, sink,
                  written, snapAddrs, observedEOAs >>

\* RAW: tryPrestateTracer's second request, { tracer: "stateDiffTracer" }: its
\* answer is returned, null when it rejects too
RawStateDiffTracer ==
  /\ pc = "raw.stateDiffTracer"
  /\ UNCHANGED aside
  /\ \E resp \in PrestateResponses(Provider(provider).prestates, tx[1]) :
       LET h == HashAt(txHashes, i)
       IN /\ sent' = Append(sent, Request(h, "stateDiffTracer", resp.shape))
          /\ out' = out \o StateDiffWrites(resp.result, h, rc[1].blockNumber)
  /\ pc' = "raw.getBalance"
  /\ UNCHANGED << provider, txHashes, i, node, tx, rc, ts, transfers, trace,
                  failures, err, prof, methodStats, approvals, ended, sink,
                  written, snapAddrs, observedEOAs >>

\* RAW: the balance checkpoint (each getBalance inside its own try/catch:
\* the node serves balances, or rejects every request), then the next i
RawGetBalance ==
  /\ pc = "raw.getBalance"
  /\ UNCHANGED aside
  /\ \E ok \in { {}, { snapAddrs[k] : k \in 1..Len(snapAddrs) } } :
       out' = out \o CheckpointWrites(i, HashAt(txHashes, i), rc[1].blockNumber,
                                      snapAddrs, ok)
  /\ RawAdvance
  /\ UNCHANGED << provider, txHashes, node, tx, rc, ts, transfers, trace,
                  failures, err, prof, methodStats, approvals, ended, sink,
                  written, sent, snapAddrs, observedEOAs >>

\* end() on the seven writers of the RAW loop; sections 2b and 2c (every
\* request in its own try/catch: the node serves getCode for the addresses
\* of snapAddrs, or rejects every request) with end() on their writers; the
\* DERIVED writers are created and the DERIVE loop is entered
RawSections ==
  /\ pc = "raw.sections"
  /\ UNCHANGED aside
  /\ \E ok \in BOOLEAN :
       LET hit == IF ok THEN snapAddrs ELSE <<>>
       IN out' = out \o [k \in 1..Len(hit) |->
                           W("codes", [doc_type |-> "code", address |-> hit[k]])]
  /\ ended' = RawWriters
  /\ i' = 1
  /\ pc' = IF Len(txHashes) = 0 THEN "mempool" ELSE "getTransaction"
  /\ node' = NoEntry
  /\ tx' = <<>> /\ rc' = <<>> /\ ts' = NoNum
  /\ trace' = <<>>
  /\ UNCHANGED << provider, txHashes, transfers, failures, err, prof,
                  methodStats, approvals, sink, written, sent, snapAddrs,
                  observedEOAs >>

\* the state in which the RAW export loop is entered with hashes 1..n
InitRun ==
  \E n \in 0..Len(RunProvider.script) :
    /\ provider = "run"
    /\ txHashes = [k \in 1..n |-> k]
    /\ i = 1
    /\ pc = IF n = 0 THEN "raw.sections" ELSE "raw.getTransaction"
    /\ node = NoEntry
    /\ tx = <<>> /\ rc = <<>> /\ ts = NoNum
    /\ transfers = <<>>
    /\ trace = <<>>
    /\ failures = <<>>
    /\ err = NULL
    /\ prof = <<>> /\ methodStats = <<>> /\ approvals = <<>>
    /\ out = <<>>
    /\ ended = {}
    /\ sink = ndjsonWriter(SHARD_SIZE)
    /\ written = <<>>
    /\ sent = <<>>
    /\ snapAddrs = <<"T">> /\ observedEOAs = 0
    /\ AsideInit

NextRun ==
  \/ RawGetTransaction \/ RawGetTransactionReceipt \/ RawGetBlock
  \/ RawTryCallTrace \/ RawPrestateTracer \/ RawStateDiffTracer
  \/ RawGetBalance \/ RawSections
  \/ Next

SpecRun == InitRun /\ [][NextRun]_vars

\* --------------------------------------------- ABI export and the bundles
\* A file is [root, dir, name, attackers, contracts]: where it lies, and what
\* it says about the actors -- the list of attacker addresses it holds and
\* the role labels under which it lists contract addresses.
File(root, dir, name, attackers, contracts) ==
  [root |-> root, dir |-> dir, name |-> name, attackers |-> attackers,
   contracts |-> contracts]

\* const contractNames = [...]
contractNames ==
  << "TestToken", "VulnerableVault", "ReentrancyAttacker", "AdminConfigBug",
     "SimpleAMM" >>

\* the keys of truth.contracts / addressesData.contracts
ContractRoles == {"token", "stable", "vault", "reent", "amm", "adminBug"}

\* exportContractABI(contractName) when readArtifact resolves: the ABI and
\* the bytecode file
ArtifactFiles(contractName) ==
  { File("", "abi", contractName, <<>>, {}),
    File("", "bytecode", contractName, <<>>, {}) }

\* const addressesData = { contracts: {...}, attackers: truth.attackers, ... }
addressesData(tr) == File("", "", "addresses.json", tr.attackers, ContractRoles)

\* the shard files a directory of streams holds (one per writer at least)
StreamFiles(root, writers) == { File(root, "", w, <<>>, {}) : w \in writers }

\* the files of META/: versions.json and schema_version.json
MetaFiles ==
  { File("META", "", "versions.json", <<>>, {}),
    File("META", "", "schema_version.json", <<>>, {}) }

\* copyDir(src, dst) for a source directory copied under `root` of a bundle:
\* every file is copied, a file already there is overwritten
copyDir(src, root, dst) ==
  LET copied == { [f EXCEPT !.root = root] : f \in src }
  IN { g \in dst : ~(\E f \in copied : <<f.root, f.dir, f.name>> = <<g.root, g.dir, g.name>>) }
     \cup copied

\* file.name.includes(attacker) for the names of contractNames, none of
\* which contains another
includes(name, part) == name = part

\* v1's copyABIDirFiltered(src, dst, excludeAttackers)
copyABIDirFiltered(src, root, dst, excludeAttackers) ==
  LET attacker_contracts == {"ReentrancyAttacker", "AdminConfigBug"}
      keep(f) ==
        IF f.dir \in {"abi", "bytecode"}
        THEN ~(\E a \in attacker_contracts : includes(f.name, a))
        ELSE TRUE
      filtered(f) ==
        IF f.dir = "" /\ f.name = "addresses.json"
        THEN [f EXCEPT !.attackers = <<>>,
                       !.contracts = {"token", "stable", "vault", "amm"}]
        ELSE f
  IN IF excludeAttackers
     THEN copyDir({ filtered(f) : f \in { g \in src : keep(g) } }, root, dst)
     ELSE copyDir(src, root, dst)

\* the files written straight into RESEARCH_BUNDLE: TRUTH/actors.json,
\* TRUTH/attack_plan.json, DECODED/timeline.md and README.md
ResearchFiles(tr) ==
  { File("TRUTH", "", "actors.json", tr.attackers, ContractRoles),
    File("TRUTH", "", "attack_plan.json", tr.attackers, {}),
    File("DECODED", "", "timeline.md", tr.attackers, {}),
    File("", "", "README.md", <<>>, {}) }

\* "Bundle into TEAM + RESEARCH" of pipeline_all_v2.js
BundleV2(abi, tr) ==
  LET raw == StreamFiles("RAW", RawWriters)
      derived == StreamFiles("DERIVED", DerivedWriters)
      team == copyDir(MetaFiles, "META",
                copyDir(abi, "ABI", copyDir(derived, "DERIVED", copyDir(raw, "RAW", {}))))
      research == copyDir(MetaFiles, "META",
                    copyDir(abi, "ABI", copyDir(derived, "DERIVED", copyDir(raw, "RAW", {}))))
  IN [TEAM |-> team \cup {File("", "", "README.md", <<>>, {})},
      RESEARCH |-> research \cup ResearchFiles(tr)]

\* "Bundle into TEAM + RESEARCH" of pipeline_all.js
BundleV1(abi, tr) ==
  LET raw == StreamFiles("RAW", RawWriters)
      derived == StreamFiles("DERIVED", DerivedWriters)
      team == copyABIDirFiltered(abi, "ABI",
                copyDir(derived, "DERIVED", copyDir(raw, "RAW", {})), TRUE)
      research == copyDir(abi, "ABI", copyDir(derived, "DERIVED", copyDir(raw, "RAW", {})))
  IN [TEAM |-> team \cup {File("", "", "README.md", <<>>, {})},
      RESEARCH |-> research \cup ResearchFiles(tr)]

\* for (const name of contractNames) await exportContractABI(name): the
\* artifact is read and exported, or the failure is logged
ExportContractABI ==
  /\ pc = "exportContractABI"
  /\ UNCHANGED << flushVars, simVars, evmVars >>
  /\ \E ok \in BOOLEAN :
       fsys' = [fsys EXCEPT !.ABI = IF ok THEN @ \cup ArtifactFiles(contractNames[i])
                                     ELSE @]
  /\ i' = i + 1
  /\ pc' = IF i + 1 > Len(contractNames) THEN "bundle" ELSE "exportContractABI"
  /\ UNCHANGED << provider, txHashes, node, tx, rc, ts, transfers, trace,
                  failures, err, prof, methodStats, approvals, out, ended, sink,
                  written, sent, snapAddrs, observedEOAs, script, truth >>

\* the contract addresses resolve; addresses.json is written, then META, and
\* the bundles are filled (all synchronous) up to `await getBlockNumber()`
Bundle ==
  /\ pc = "bundle"
  /\ UNCHANGED << flushVars, simVars, evmVars >>
  /\ LET abi == fsys.ABI \cup {addressesData(truth)}
         b == IF script = "v1" THEN BundleV1(abi, truth) ELSE BundleV2(abi, truth)
     IN fsys' = [ABI |-> abi, TEAM |-> b.TEAM, RESEARCH |-> b.RESEARCH]
  /\ pc' = "manifest"
  /\ UNCHANGED << provider, txHashes, i, node, tx, rc, ts, transfers, trace,
                  failures, err, prof, methodStats, approvals, out, ended, sink,
                  written, sent, snapAddrs, observedEOAs, script, truth >>

\* getBlockNumber() resolves: RUN_META.json and the hash manifest are written
\* into both bundles (a rejection ends the run through main().catch)
Manifest ==
  /\ pc = "manifest"
  /\ UNCHANGED << flushVars, simVars, evmVars >>
  /\ \E f \in {"ok", "throws"} :
       IF f = "throws"
       THEN Crash("getBlockNumber rejected") /\ fsys' = fsys
       ELSE /\ pc' = "finished" /\ err' = err
            /\ LET more == { File("", "", "RUN_META.json", <<>>, {}),
                             File("", "", "MANIFEST.sha256", <<>>, {}) }
               IN fsys' = [fsys EXCEPT !.TEAM = @ \cup more, !.RESEARCH = @ \cup more]
  /\ UNCHANGED << provider, txHashes, i, node, tx, rc, ts, transfers, trace,
                  failures, prof, methodStats, approvals, out, ended, sink,
                  written, sent, snapAddrs, observedEOAs, script, truth >>

\* the signers a run may designate as attacker1 and attacker2
Signers == {"A", "B", "C"}

\* the state after the DERIVE stage of a run of either script, for any
\* designation of the two attackers
InitBundle ==
  /\ provider = "chain"
  /\ txHashes = <<>>
  /\ i = 1
  /\ pc = "exportContractABI"
  /\ node = NoEntry
  /\ tx = <<>> /\ rc = <<>> /\ ts = NoNum
  /\ transfers = <<>>
  /\ trace = <<>>
  /\ failures = <<>>
  /\ err = NULL
  /\ prof = <<>> /\ methodStats = <<>> /\ approvals = <<>>
  /\ out = <<>>
  /\ ended = RawWriters \cup DerivedWriters
  /\ sink = ndjsonWriter(SHARD_SIZE)
  /\ written = <<>>
  /\ sent = <<>>
  /\ snapAddrs = <<>> /\ observedEOAs = 0
  /\ script \in {"v1", "v2"}
  /\ \E a1 \in Signers, a2 \in Signers :
       a1 # a2 /\ truth = [attackers |-> <<a1, a2>>]
  /\ fsys = [ABI |-> {}, TEAM |-> {}, RESEARCH |-> {}]
  /\ disk = <<>> /\ bundled = <<>>
  /\ SimIdle /\ EvmIdle

NextBundle == ExportContractABI \/ Bundle \/ Manifest

SpecBundle == InitBundle /\ [][NextBundle]_vars

\* ------------------------------------- the writer's stream and the disk
\* stream.write() and stream.end() return at once; the stream opens its file
\* and appends the lines later, in order, from the event loop.

\* the position in sink.files of the first file the disk is behind on
\* (0: the disk holds everything that was written)
Behind ==
  IF \E k \in 1..Len(sink.files) : k > Len(disk) \/ Len(disk[k]) < Len(sink.files[k])
  THEN CHOOSE k \in 1..Len(sink.files) :
         /\ k > Len(disk) \/ Len(disk[k]) < Len(sink.files[k])
         /\ \A j \in 1..(k - 1) : j <= Len(disk) /\ Len(disk[j]) = Len(sink.files[j])
  ELSE 0

\* the event loop completes the stream's next operation: the file is
\* created, or the next line is appended to it
Flush ==
  /\ pc = "writer"
  /\ Behind # 0
  /\ disk' = IF Behind > Len(disk) THEN Append(disk, <<>>)
             ELSE [disk EXCEPT ![Behind] = Append(@, sink.files[Behind][Len(@) + 1])]
  /\ UNCHANGED << provider, txHashes, i, pc, node, tx, rc, ts, transfers, trace,
                  failures, err, prof, methodStats, approvals, out, ended, sink,
                  written, sent, snapAddrs, observedEOAs, script, truth, fsys,
                  bundled, simVars, evmVars >>

\* after end(): copyDir(...) copies the stream's directory into a bundle with
\* fs.copyFileSync, file by file as it is on disk at that moment
CopyToBundle ==
  /\ pc = "writer"
  /\ sink.ended
  /\ bundled = <<>>
  /\ bundled' = <<disk>>
  /\ UNCHANGED << provider, txHashes, i, pc, node, tx, rc, ts, transfers, trace,
                  failures, err, prof, methodStats, approvals, out, ended, sink,
                  written, sent, snapAddrs, observedEOAs, script, truth, fsys,
                  disk, simVars, evmVars >>

NextFlush == WriterWrite \/ WriterEnd \/ Flush \/ CopyToBundle

\* a writer just constructed, nothing of it on disk yet
SpecFlush == InitWriter /\ [][NextFlush]_vars

\* ------------------------------------------------ a run of pipeline_all.js
\* pipeline_all.js has the RAW export loop of pipeline_all_v2.js (lines
\* 519-576) and a DERIVE loop with the same four awaits (lines 725-995).
\* Its loop body is taken here as to the writers it writes through, the
\* records being those of the later script.

\* the writers created at lines 662-672 of pipeline_all.js
V1DerivedWriters ==
  { "tx_enriched", "asset_transfers", "fund_flow_edges", "address_profile",
    "approvals", "allowance_edges", "contract_calls", "method_stats",
    "trace_edges", "revert_reasons", "mempool_pending" }

\* the writer pipeline_all.js hands record x to: the trace_call record goes
\* to tracesW (line 889), the RAW stage's writer of call traces
V1Writer(x) ==
  IF x.w = "trace_edges" /\ x.doc.doc_type = "trace_call" THEN "traces_call" ELSE x.w

\* the writes of `after` beyond those of `before`, as pipeline_all.js makes
\* them: only through the writers it has
V1Writes(before, after) ==
  LET new == SubSeq(after, Len(before) + 1, Len(after))
      redirected == [k \in 1..Len(new) |-> [new[k] EXCEPT !.w = V1Writer(new[k])]]
  IN before \o SelectSeq(redirected,
                         LAMBDA x : x.w \in V1DerivedWriters \cup RawWriters)

\* the end of one iteration of pipeline_all.js (also `continue`): after the
\* last one the profiles and method stats are flushed and every DERIVED
\* writer is ended (lines 997-1029, no await in between)
V1Advance(o, pf, ms) ==
  /\ i' = i + 1
  /\ prof' = pf
  /\ methodStats' = ms
  /\ IF i + 1 > Len(txHashes)
     THEN /\ out' = V1Writes(out, o \o FlushWrites(pf, ms))
          /\ ended' = ended \cup V1DerivedWriters
          /\ pc' = "done"
     ELSE /\ out' = V1Writes(out, o)
          /\ ended' = ended
          /\ pc' = "getTransaction"

\* pipeline_all.js: const rc = await getTransactionReceipt(h), then
\* if (!tx || !rc) continue
V1GetTransactionReceipt ==
  /\ pc = "getTransactionReceipt"
  /\ script = "v1"
  /\ UNCHANGED << flushVars, simVars, evmVars >>
  /\ \E f \in Provider(provider).faults :
       LET r == IF f = "null" \/ tx = <<>> THEN <<>> ELSE <<RcAt(node.rc, i)>>
       IN /\ rc' = r
          /\ IF tx = <<>> \/ r = <<>>
             THEN V1Advance(out, prof, methodStats)
             ELSE /\ pc' = "getBlock"
                  /\ UNCHANGED << i, prof, methodStats, out, ended >>
  /\ UNCHANGED << provider, txHashes, node, tx, ts, transfers, trace, failures,
                  err, approvals, sink, written, sent, snapAddrs, observedEOAs,
                  script, truth, fsys >>

\* pipeline_all.js: const blk = await getBlock(rc.blockHash), then the loop
\* body down to the call of tryCallTrace
V1GetBlock ==
  /\ pc = "getBlock"
  /\ script = "v1"
  /\ UNCHANGED << flushVars, simVars, evmVars >>
  /\ \E f \in Provider(provider).blockFaults :
       LET blk == IF f = "null" THEN <<>> ELSE <<BlockAt(rc[1].blockHash)>>
           b == BeforeTrace(HashAt(txHashes, i), tx[1], rc[1], Timestamp(blk),
                            out, prof, methodStats)
       IN /\ ts' = Timestamp(blk)
          /\ out' = V1Writes(out, b.out)
          /\ prof' = b.prof
          /\ methodStats' = b.methodStats
          /\ transfers' = b.transfers
          /\ IF b.threw
             THEN Crash("SyntaxError: Cannot convert to a BigInt")
             ELSE pc' = "tryCallTrace" /\ err' = err
  /\ UNCHANGED << provider, txHashes, i, node, tx, rc, trace, failures,
                  approvals, ended, sink, written, sent, snapAddrs,
                  observedEOAs, script, truth, fsys >>

\* pipeline_all.js: const trace = await tryCallTrace(h);
\* if (trace) { tracesW.write({ doc_type: "trace_call", ... }); ... }, then
\* the rest of the loop body and the loop's next step
V1TryCallTrace ==
  /\ pc = "tryCallTrace"
  /\ script = "v1"
  /\ UNCHANGED << flushVars, simVars, evmVars >>
  /\ \E resp \in TraceResponses(Provider(provider).traces, tx[1]) :
       LET t == tryCallTrace(resp)
           a == AfterTrace(HashAt(txHashes, i), tx[1], rc[1], ts, t.value,
                           transfers, out, prof, approvals)
       IN /\ sent' = Append(sent, Request(HashAt(txHashes, i), "callTracer", resp.shape))
          /\ trace' = t.value
          /\ approvals' = a.approvals
          /\ IF a.threw
             THEN /\ Crash("TypeError: Cannot read properties of null")
                  /\ out' = V1Writes(out, a.out)
                  /\ prof' = a.prof
                  /\ UNCHANGED << i, methodStats, ended >>
             ELSE V1Advance(a.out, a.prof, methodStats) /\ err' = err
  /\ UNCHANGED << provider, txHashes, node, tx, rc, ts, transfers, failures,
                  sink, written, snapAddrs, observedEOAs, script, truth, fsys >>

\* the state in which pipeline_all.js enters its RAW export loop
InitV1 ==
  \E n \in 1..Len(RunProvider.script) :
    /\ provider = "run"
    /\ txHashes = [k \in 1..n |-> k]
    /\ i = 1
    /\ pc = "raw.getTransaction"
    /\ node = NoEntry
    /\ tx = <<>> /\ rc = <<>> /\ ts = NoNum
    /\ transfers = <<>>
    /\ trace = <<>>
    /\ failures = <<>>
    /\ err = NULL
    /\ prof = <<>> /\ methodStats = <<>> /\ approvals = <<>>
    /\ out = <<>>
    /\ ended = {}
    /\ sink = ndjsonWriter(SHARD_SIZE)
    /\ written = <<>>
    /\ sent = <<>>
    /\ snapAddrs = <<"T">> /\ observedEOAs = 0
    /\ script = "v1"
    /\ truth = [attackers |-> <<>>]
    /\ fsys = [ABI |-> {}, TEAM |-> {}, RESEARCH |-> {}]
    /\ disk = <<>> /\ bundled = <<>>
    /\ SimIdle /\ EvmIdle

NextV1 ==
  \/ RawGetTransaction \/ RawGetTransactionReceipt \/ RawGetBlock
  \/ RawTryCallTrace \/ RawPrestateTracer \/ RawStateDiffTracer
  \/ RawGetBalance \/ RawSections
  \/ GetTransaction \/ V1GetTransactionReceipt \/ V1GetBlock \/ V1TryCallTrace

SpecV1 == InitV1 /\ [][NextV1]_vars

\* ------------------------------------------ the pipeline's state, at rest
\* the variables of the pipeline scripts while another program is looked at
PipelineIdle(at) ==
  /\ provider = "chain"
  /\ txHashes = <<>>
  /\ i = 1
  /\ pc = at
  /\ node = NoEntry
  /\ tx = <<>> /\ rc = <<>> /\ ts = NoNum
  /\ transfers = <<>>
  /\ trace = <<>>
  /\ failures = <<>>
  /\ err = NULL
  /\ prof = <<>> /\ methodStats = <<>> /\ approvals = <<>>
  /\ out = <<>>
  /\ ended = {}
  /\ sink = ndjsonWriter(SHARD_SIZE)
  /\ written = <<>>
  /\ sent = <<>>
  /\ snapAddrs = <<>> /\ observedEOAs = 0
  /\ script = "v2"
  /\ truth = [attackers |-> <<>>]
  /\ fsys = [ABI |-> {}, TEAM |-> {}, RESEARCH |-> {}]
  /\ disk = <<>> /\ bundled = <<>>

\* everything but the EVM
outsideEvm ==
  << provider, txHashes, i, pc, node, tx, rc, ts, transfers, trace, failures,
     err, prof, methodStats, approvals, out, ended, sink, written, sent,
     snapAddrs, observedEOAs, script, truth, fsys, flushVars, simVars >>

\* ------------------------- VulnerableVault.sol and ReentrancyAttacker.sol
\* One transaction, attacker1 -> ReentrancyAttacker.attack(amount) with
\* msg.value, executed by the EVM frame by frame.  `world` is
\* [ethVault, ethReent, balances, attackAmount, held]: the ETH of the two
\* contracts, VulnerableVault.balances[ReentrancyAttacker],
\* ReentrancyAttacker.attackAmount, and (fixed) the other users' deposits the
\* vault held before the transaction.  A frame is [fn, pc, amount, value,
\* ok, reason, saved]: `saved` is the world the frame's revert restores.
\* Amounts are in units of the attack's 0.05 ETH.  Gas is taken as
\* sufficient: no frame tolerates a failed call, so a frame that ran out of
\* gas would revert the whole transaction.
MaxHeld == 3

MaxAmount == 2

Frame(fn, at, amount, value, saved) ==
  [fn |-> fn, pc |-> at, amount |-> amount, value |-> value, ok |-> TRUE,
   reason |-> NULL, saved |-> saved]

Top == stack[Len(stack)]

SetTop(f) == [stack EXCEPT ![Len(stack)] = f]

At(fn, at) == pc = "evm" /\ stack # <<>> /\ Top.fn = fn /\ Top.pc = at

\* require(cond, reason) and the checked-arithmetic panic: the frame reverts
RevertWith(reason) == SetTop([Top EXCEPT !.pc = "revert", !.reason = reason])

\* ReentrancyAttacker.attack, line 17: attackAmount = amount
Attack ==
  /\ At("attack", "start")
  /\ world' = [world EXCEPT !.attackAmount = Top.amount]
  /\ stack' = SetTop([Top EXCEPT !.pc = "deposit"])
  /\ UNCHANGED << entered, receipt, outsideEvm >>

\* ReentrancyAttacker.attack, line 18: vault.deposit{value: msg.value}(),
\* and VulnerableVault.deposit (lines 10-13), which calls nothing
Deposit ==
  /\ At("attack", "deposit")
  /\ world' = [world EXCEPT !.ethReent = @ - Top.value,
                            !.ethVault = @ + Top.value,
                            !.balances = @ + Top.value]
  /\ entered' = Append(entered, "deposit")
  /\ stack' = SetTop([Top EXCEPT !.pc = "withdraw"])
  /\ UNCHANGED << receipt, outsideEvm >>

\* vault.withdraw(amount) of attack (line 19) and vault.withdraw(attackAmount)
\* of receive (line 24): a new frame of VulnerableVault.withdraw; the caller
\* returns when it does
CallWithdraw ==
  /\ At("attack", "withdraw") \/ At("receive", "withdraw")
  /\ LET amount == IF Top.fn = "attack" THEN Top.amount ELSE world.attackAmount
     IN stack' = Append(SetTop([Top EXCEPT !.pc = "return"]),
                        Frame("withdraw", "require", amount, 0, world))
  /\ entered' = Append(entered, "withdraw")
  /\ UNCHANGED << world, receipt, outsideEvm >>

\* VulnerableVault.withdraw, line 16
WithdrawRequire ==
  /\ At("withdraw", "require")
  /\ stack' = IF world.balances >= Top.amount
              THEN SetTop([Top EXCEPT !.pc = "call"])
              ELSE RevertWith("INSUFFICIENT")
  /\ UNCHANGED << world, entered, receipt, outsideEvm >>

\* VulnerableVault.withdraw, line 19: msg.sender.call{value: amount}(""),
\* which runs ReentrancyAttacker.receive; a call the vault cannot fund
\* fails at once
WithdrawCall ==
  /\ At("withdraw", "call")
  /\ IF world.ethVault < Top.amount
     THEN /\ stack' = SetTop([Top EXCEPT !.pc = "requireOk", !.ok = FALSE])
          /\ UNCHANGED << world, entered >>
     ELSE /\ world' = [world EXCEPT !.ethVault = @ - Top.amount,
                                    !.ethReent = @ + Top.amount]
          /\ stack' = Append(SetTop([Top EXCEPT !.pc = "requireOk", !.ok = TRUE]),
                             Frame("receive", "check", 0, Top.amount, world))
          /\ entered' = Append(entered, "receive")
  /\ UNCHANGED << receipt, outsideEvm >>

\* ReentrancyAttacker.receive, line 23
Receive ==
  /\ At("receive", "check")
  /\ stack' = IF world.ethVault >= world.attackAmount
              THEN SetTop([Top EXCEPT !.pc = "withdraw"])
              ELSE SetTop([Top EXCEPT !.pc = "return"])
  /\ UNCHANGED << world, entered, receipt, outsideEvm >>

\* VulnerableVault.withdraw, line 20
WithdrawRequireOk ==
  /\ At("withdraw", "requireOk")
  /\ stack' = IF Top.ok THEN SetTop([Top EXCEPT !.pc = "decrement"])
              ELSE RevertWith("SEND_FAIL")
  /\ UNCHANGED << world, entered, receipt, outsideEvm >>

\* VulnerableVault.withdraw, lines 22-23: balances[msg.sender] -= amount in
\* checked arithmetic (pragma solidity ^0.8.24): an underflow is Panic(0x11)
WithdrawDecrement ==
  /\ At("withdraw", "decrement")
  /\ IF world.balances < Top.amount
     THEN stack' = RevertWith("Panic(17)") /\ world' = world
     ELSE /\ world' = [world EXCEPT !.balances = @ - Top.amount]
          /\ stack' = SetTop([Top EXCEPT !.pc = "return"])
  /\ UNCHANGED << entered, receipt, outsideEvm >>

\* a frame returns: its caller goes on, or the transaction has succeeded
Return ==
  /\ pc = "evm" /\ stack # <<>> /\ Top.pc = "return"
  /\ stack' = SubSeq(stack, 1, Len(stack) - 1)
  /\ receipt' = IF Len(stack) = 1 THEN [status |-> 1, reason |-> NULL] ELSE receipt
  /\ UNCHANGED << world, entered, outsideEvm >>

\* a frame reverts: the world is as it was when the frame was entered; a
\* low-level call (the one that ran receive) hands `false` to its caller,
\* a call through the contract interface makes its caller revert as well
Revert ==
  /\ pc = "evm" /\ stack # <<>> /\ Top.pc = "revert"
  /\ world' = Top.saved
  /\ IF Len(stack) = 1
     THEN /\ stack' = <<>>
          /\ receipt' = [status |-> 0, reason |-> Top.reason]
     ELSE /\ receipt' = receipt
          /\ LET caller == stack[Len(stack) - 1]
                 rest == SubSeq(stack, 1, Len(stack) - 2)
             IN stack' = IF Top.fn = "receive"
                         THEN Append(rest, [caller EXCEPT !.ok = FALSE])
                         ELSE Append(rest, [caller EXCEPT !.pc = "revert",
                                                          !.reason = Top.reason])
  /\ UNCHANGED << entered, outsideEvm >>

\* the transaction starts: msg.value has been credited to the attacker
\* contract, the vault holds `held` of other users' deposits
InitVault ==
  /\ PipelineIdle("evm")
  /\ SimIdle
  /\ \E held \in 0..MaxHeld, amount \in 1..MaxAmount, value \in 0..MaxAmount :
       LET before == [ethVault |-> held, ethReent |-> 0, balances |-> 0,
                      attackAmount |-> 0, held |-> held]
       IN /\ world = [before EXCEPT !.ethReent = value]
          /\ stack = <<Frame("attack", "start", amount, value, before)>>
  /\ entered = <<"attack">>
  /\ receipt = NULL

NextVault ==
  \/ Attack \/ Deposit \/ CallWithdraw \/ WithdrawRequire \/ WithdrawCall
  \/ Receive \/ WithdrawRequireOk \/ WithdrawDecrement \/ Return \/ Revert

SpecVault == InitVault /\ [][NextVault]_vars

\* ------------------------------------------------ simulate_10k.js: the loop
\* The simulation loop of simulate_10k.js (lines 235-356; the same loop is in
\* pipeline_all_v2.js, from line 481).  An attempt is <<i, name>>: the
\* transaction `name` of iteration i.  `sends` maps an attempt to the state
\* of its send promise and of its transaction:
\*   "started"   the send is running (populate, estimate, submit), the
\*               transaction has not reached the node
\*   "pending"   the node took it into the mempool; the promise has resolved
\*   "mined"     it is in a block
\*   "rejected"  the send rejected: there is no transaction
\*   "ok" / "reverted"   safeWait saw tx.wait() resolve / reject
\* An iteration that is not the sandwich is taken as one attempt passed to
\* safeWait at once, which is what normalTx and the other attack steps do
\* (one or more times in a row).
TOTAL_TX == 3

\* attackPoints[3] = Math.floor(TOTAL_TX * 0.75)
SandwichAt == (3 * TOTAL_TX) \div 4

Attempt(k, name) == <<k, name>>

\* the tag safeWait is called with
TagOf ==
  [normal |-> "normal_tx", front |-> "attack_sandwich_front",
   victim |-> "attack_sandwich_victim", back |-> "attack_sandwich_back"]

\* the failures entry safeWait's catch pushes
Failure(attempt) == [tag |-> TagOf[attempt[2]], of |-> attempt]

\* where iteration k of the loop starts
Enter(k) ==
  IF k > TOTAL_TX THEN "done"
  ELSE IF k = SandwichAt THEN "setAutomine.off" ELSE "normalTx"

\* the attempt whose promise main is suspended on inside safeWait
Awaited ==
  CASE pc \in {"await.normal", "wait.normal"} -> <<Attempt(i, "normal")>>
    [] pc \in {"await.front", "wait.front"} -> <<Attempt(i, "front")>>
    [] pc \in {"await.victim", "wait.victim"} -> <<Attempt(i, "victim")>>
    [] pc \in {"await.back", "wait.back"} -> <<Attempt(i, "back")>>
    [] OTHER -> <<>>

\* what follows safeWait(name)
AfterSafeWait(name) ==
  CASE name = "front" -> "await.victim"
    [] name = "victim" -> "await.back"
    [] OTHER -> "record"

\* everything but the simulation
outsideSim ==
  << provider, node, tx, rc, ts, transfers, trace, prof, methodStats,
     approvals, out, ended, sink, written, sent, snapAddrs, observedEOAs,
     script, truth, fsys, flushVars, evmVars >>

\* normalTx: `await safeWait(send(..., await txOpts()), tag, failures)`: the
\* promise is created and handed to safeWait, which awaits it
NormalTx ==
  /\ pc = "normalTx"
  /\ sends' = (Attempt(i, "normal") :> "started") @@ sends
  /\ pc' = "await.normal"
  /\ UNCHANGED << i, txHashes, failures, err, automine, mempool, blocks, outsideSim >>

\* await setAutomine(false)
SetAutomineOff ==
  /\ pc = "setAutomine.off"
  /\ automine' = FALSE
  /\ pc' = "front"
  /\ UNCHANGED << i, txHashes, failures, err, mempool, blocks, sends, outsideSim >>

\* const frontP = ..., const victimP = ..., const backP = ...: after
\* `await txOpts()` the send is started and its promise kept, not awaited
SandwichSend ==
  /\ pc \in {"front", "victim", "back"}
  /\ sends' = (Attempt(i, pc) :> "started") @@ sends
  /\ pc' = CASE pc = "front" -> "victim" [] pc = "victim" -> "back" [] OTHER -> "mine.1"
  /\ UNCHANGED << i, txHashes, failures, err, automine, mempool, blocks, outsideSim >>

\* await mine(): evm_mine puts the mempool, in arrival order, into a block
Mine ==
  /\ pc \in {"mine.1", "mine.2"}
  /\ blocks' = Append(blocks, mempool)
  /\ mempool' = <<>>
  /\ sends' = [a \in DOMAIN sends |->
                 IF \E k \in 1..Len(mempool) : mempool[k] = a THEN "mined" ELSE sends[a]]
  /\ pc' = IF pc = "mine.1" THEN "setAutomine.on" ELSE "await.front"
  /\ UNCHANGED << i, txHashes, failures, err, automine, outsideSim >>

\* await setAutomine(true)
SetAutomineOn ==
  /\ pc = "setAutomine.on"
  /\ automine' = TRUE
  /\ pc' = "mine.2"
  /\ UNCHANGED << i, txHashes, failures, err, mempool, blocks, sends, outsideSim >>

\* a running send submits its transaction: the node takes it into the
\* mempool, and with automine on mines a block at once
Submit ==
  /\ pc \notin {"done", "exit1"}
  /\ \E a \in DOMAIN sends :
       /\ sends[a] = "started"
       /\ IF automine
          THEN /\ blocks' = Append(blocks, Append(mempool, a))
               /\ mempool' = <<>>
               /\ sends' = [b \in DOMAIN sends |->
                              IF b = a \/ \E k \in 1..Len(mempool) : mempool[k] = b
                              THEN "mined" ELSE sends[b]]
          ELSE /\ mempool' = Append(mempool, a)
               /\ sends' = [sends EXCEPT ![a] = "pending"]
               /\ blocks' = blocks
  /\ UNCHANGED << i, pc, txHashes, failures, err, automine, outsideSim >>

\* a running send rejects (gas estimation fails, the node refuses the
\* transaction).  While safeWait awaits the promise its catch will see the
\* rejection; a promise nobody awaits yet is an unhandled rejection, on
\* which Node.js ends the process with exit code 1
Reject ==
  /\ pc \notin {"done", "exit1"}
  /\ \E a \in DOMAIN sends :
       /\ sends[a] = "started"
       /\ sends' = [sends EXCEPT ![a] = "rejected"]
       /\ IF Awaited = <<a>>
          THEN UNCHANGED << pc, err >>
          ELSE Crash("unhandled rejection")
  /\ UNCHANGED << i, txHashes, failures, automine, mempool, blocks, outsideSim >>

\* safeWait, `const tx = await promise`: the promise has settled
SafeWaitPromise ==
  /\ Awaited # <<>>
  /\ pc \in {"await.normal", "await.front", "await.victim", "await.back"}
  /\ LET a == Awaited[1] IN
       /\ sends[a] \in {"pending", "mined", "rejected"}
       /\ IF sends[a] = "rejected"
          THEN /\ failures' = Append(failures, Failure(a))
               /\ pc' = AfterSafeWait(a[2])
          ELSE /\ failures' = failures
               /\ pc' = CASE a[2] = "normal" -> "wait.normal"
                          [] a[2] = "front" -> "wait.front"
                          [] a[2] = "victim" -> "wait.victim"
                          [] OTHER -> "wait.back"
  /\ UNCHANGED << i, txHashes, err, automine, mempool, blocks, sends, outsideSim >>

\* safeWait, `const rc = await tx.wait()`: the transaction is in a block;
\* wait() resolves with the receipt, or rejects when the receipt's status is 0
SafeWaitReceipt ==
  /\ Awaited # <<>>
  /\ pc \in {"wait.normal", "wait.front", "wait.victim", "wait.back"}
  /\ LET a == Awaited[1] IN
       /\ sends[a] = "mined"
       /\ \E status \in {0, 1} :
            IF status = 1
            THEN /\ sends' = [sends EXCEPT ![a] = "ok"]
                 /\ failures' = failures
            ELSE /\ sends' = [sends EXCEPT ![a] = "reverted"]
                 /\ failures' = Append(failures, Failure(a))
       /\ pc' = AfterSafeWait(a[2])
  /\ UNCHANGED << i, txHashes, err, automine, mempool, blocks, outsideSim >>

\* the hashes record() pushes for the results of iteration k, in the order
\* the iteration calls it
Recorded(k) ==
  LET names == IF k = SandwichAt THEN <<"front", "victim", "back">> ELSE <<"normal">>
  IN SelectSeq([n \in 1..Len(names) |-> Attempt(k, names[n])],
               LAMBDA a : sends[a] = "ok")

\* await record(res) for each result of the iteration, then the next iteration
Record ==
  /\ pc = "record"
  /\ txHashes' = txHashes \o Recorded(i)
  /\ i' = i + 1
  /\ pc' = Enter(i + 1)
  /\ UNCHANGED << failures, err, automine, mempool, blocks, sends, outsideSim >>

\* the loop is entered: automine is on, nothing is pending
InitSim ==
  /\ PipelineIdle(Enter(1))
  /\ SimIdle
  /\ EvmIdle

NextSim ==
  \/ NormalTx \/ SetAutomineOff \/ SandwichSend \/ Mine \/ SetAutomineOn
  \/ Submit \/ Reject \/ SafeWaitPromise \/ SafeWaitReceipt \/ Record

SpecSim == InitSim /\ [][NextSim]_vars

\* =================================================================== claims
\* Reading the record of writes.

\* the writers that receive per-transaction facts
PerTxWriters == DerivedWriters \ {"address_profile", "method_stats", "mempool_observed"}

\* the transaction a per-transaction record belongs to
FactHash(x) == IF x.w = "allowance_usage" THEN x.doc.drain_tx_hash ELSE x.doc.tx_hash

\* positions of `out` holding a record of writer w
Written(w) == {p \in 1..Len(out) : out[p].w = w}

\* positions of `out` holding a record of doc_type d
WrittenDoc(d) == {p \in 1..Len(out) : out[p].doc.doc_type = d}

\* positions of `out` holding a record of doc_type d that belongs to hash h
WrittenFor(d, h) ==
  {p \in WrittenDoc(d) : out[p].w \in PerTxWriters /\ FactHash(out[p]) = h}

RECURSIVE SumAt(_, _)
\* the sum of f over the set of positions S (f is a function on positions)
SumAt(S, f) ==
  IF S = {} THEN 0 ELSE LET p == CHOOSE q \in S : TRUE IN f[p] + SumAt(S \ {p}, f)

\* the loop has just finished the body for txHashes[i-1] without `continue`
\* (tx, rc, transfers and trace are still those of that transaction)
JustProcessed ==
  /\ pc \in {"getTransaction", "mempool", "done"}
  /\ i > 1
  /\ tx # <<>> /\ rc # <<>>

\* -------------------------------------------------------------------- C1
NativeFacts ==
  {p \in Written("asset_transfers") : out[p].doc.asset_type = "native"}

NativeAmount == [p \in NativeFacts |-> BigIntDec(out[p].doc.amount_wei)]

\* native asset_transfer facts: received minus sent by address a
FactNet(a) ==
  SumAt({p \in NativeFacts : out[p].doc.to = a}, NativeAmount)
  - SumAt({p \in NativeFacts : out[p].doc.from = a}, NativeAmount)

\* eth_in_wei - eth_out_wei of a's profile (0 when a has no profile)
ProfNet(a) ==
  IF MapHas(prof, a)
  THEN BigIntDec(MapGet(prof, a).eth_in_wei) - BigIntDec(MapGet(prof, a).eth_out_wei)
  ELSE 0

AddressesSeen ==
  {prof[k][1] : k \in 1..Len(prof)}
    \cup {out[p].doc.to : p \in NativeFacts} \cup {out[p].doc.from : p \in NativeFacts}

\* C1 (as claimed): after a run, for every address a, eth_in_wei - eth_out_wei
\* of a's profile equals the native asset_transfer amounts sent to a minus
\* those sent by a -- also when call traces were available.
C1_Conservation ==
  pc = "done" => \A a \in AddressesSeen : ProfNet(a) = FactNet(a)

\* -------------------------------------------------------------------- C2
\* the approval record at q carries the (token, owner, spender) of the usage
\* record at p, compared as the resolver compares them (ignoring letter case)
SameTriple(q, p) ==
  /\ toLowerCase(out[q].doc.token) = toLowerCase(out[p].doc.token)
  /\ toLowerCase(Tmpl(out[q].doc.owner)) = toLowerCase(Tmpl(out[p].doc.owner))
  /\ toLowerCase(Tmpl(out[q].doc.spender)) = toLowerCase(Tmpl(out[p].doc.spender))

\* C2: every allowance_usage record is preceded, in the order of writing, by
\* an approval record with the same (token, owner, spender) whose transaction
\* is the one the usage names as approval_tx_hash, and that transaction is
\* not later in the sequence than the usage's own.
C2_ApprovalUsageSound ==
  \A p \in Written("allowance_usage") :
    /\ \E q \in Written("approvals") :
         /\ q < p
         /\ SameTriple(q, p)
         /\ out[q].doc.tx_hash = out[p].doc.approval_tx_hash
    /\ out[p].doc.approval_tx_hash <= out[p].doc.drain_tx_hash

\* a usage was linked to an approval of an earlier transaction
C2_Witness ==
  \E p \in Written("allowance_usage") :
    out[p].doc.approval_tx_hash < out[p].doc.drain_tx_hash

\* -------------------------------------------------------------------- C3
\* C3 (as claimed): when the fetch of the transaction, receipt or block of an
\* identifier fails (rejects or yields nothing), one failure entry is
\* recorded for it and the run goes on: it is not aborted.
C3_FetchFailureIsolated ==
  [][ (/\ pc \in {"getTransaction", "getTransactionReceipt", "getBlock"}
       /\ \/ pc' = "exit1"
          \/ (pc = "getTransaction" /\ tx' = <<>>)
          \/ (pc = "getTransactionReceipt" /\ rc' = <<>>))
      => (pc' # "exit1" /\ Len(failures') = Len(failures) + 1) ]_vars

\* -------------------------------------------------------------------- C4
\* a log that carries the Transfer signature (and the three topics of the
\* event)
TransferSigned(lg) == IsTransferLog(lg)

\* a log that carries the Approval signature
ApprovalSigned(lg) ==
  Len(lg.topics) >= 3 /\ topicLower(lg.topics[1]) = topicLower(APPROVAL_TOPIC0)

\* the payload of a signed log decodes: both address topics are strings and
\* the data is a hexadecimal integer
Decodable(lg) ==
  /\ lg.topics[2] # <<>> /\ lg.topics[3] # <<>>
  /\ ~hexToBigIntThrows(lg.data)

\* the number of logs of receipt r that satisfy P
CountLogs(r, P(_)) == Cardinality({k \in 1..Len(r.logs) : P(r.logs[k])})

GoodTransfer(lg) == TransferSigned(lg) /\ Decodable(lg)

GoodApproval(lg) == ApprovalSigned(lg) /\ Decodable(lg)

\* C4 (as claimed): with every fetch succeeding, a signed log whose payload
\* does not decode raises nothing (the run never exits through
\* main().catch), yields no fact, and leaves the other logs of its
\* transaction decoded: after a transaction the erc20 asset_transfer and the
\* approval records of its hash are exactly those of its decodable logs.
C4_DecodeFailureIsolated ==
  /\ pc # "exit1"
  /\ JustProcessed =>
       LET h == HashAt(txHashes, i - 1) IN
       /\ Cardinality({p \in WrittenFor("asset_transfer", h) :
                          out[p].doc.asset_type = "erc20"})
            = CountLogs(rc[1], GoodTransfer)
       /\ Cardinality(WrittenFor("approval", h)) = CountLogs(rc[1], GoodApproval)

\* -------------------------------------------------------------------- C5
\* the rejections of the three fetches that precede the trace fetch
FetchRejections ==
  {"getTransaction rejected", "getTransactionReceipt rejected", "getBlock rejected"}

\* the records of writer w that belong to hash h
WrittenBy(w, h) == {p \in Written(w) : FactHash(out[p]) = h}

Aggregates == Written("address_profile") \cup Written("method_stats")

PerTxFacts == {p \in 1..Len(out) : out[p].w \in PerTxWriters}

\* C6: aggregate records are written only once the loop has gone through
\* the whole sequence, no per-transaction record follows an aggregate
\* record, and in a completed run every profile and every method stat has
\* exactly one record.
C6_RunStateMachine ==
  /\ Aggregates # {} => i > Len(txHashes)
  /\ \A p \in Aggregates, q \in PerTxFacts : q < p
  /\ pc = "done" =>
       /\ \A k \in 1..Len(prof) :
            Cardinality({p \in Written("address_profile") :
                           out[p].doc.address = prof[k][1]}) = 1
       /\ Cardinality(Written("address_profile")) = Len(prof)
       /\ \A k \in 1..Len(methodStats) :
            Cardinality({p \in Written("method_stats") :
                           <<out[p].doc.to, out[p].doc.method_id>> = methodStats[k][1]}) = 1
       /\ Cardinality(Written("method_stats")) = Len(methodStats)

\* a run over two processed transactions completed with profiles and method
\* stats flushed
C6_Witness ==
  /\ pc = "done"
  /\ Cardinality({FactHash(out[p]) : p \in PerTxFacts}) >= 2
  /\ Written("address_profile") # {}
  /\ Written("method_stats") # {}

\* -------------------------------------------------------------------- C7
\* the position in the input sequence of the transaction of record p
PosOf(p) == CHOOSE k \in 1..Len(txHashes) : txHashes[k] = FactHash(out[p])

\* C7: per-transaction records appear in the order of the input sequence,
\* and when the transaction at position i is about to be fetched (or is
\* being fetched) every record written so far belongs to an earlier
\* position: nothing of a transaction is written before the records of its
\* predecessors, however the fetches are scheduled.
C7_InOrderStreaming ==
  /\ \A p \in PerTxFacts : \E k \in 1..Len(txHashes) : txHashes[k] = FactHash(out[p])
  /\ \A p, q \in PerTxFacts : p < q => PosOf(p) <= PosOf(q)
  /\ \A p \in PerTxFacts :
       IF pc \in {"getTransaction", "getTransactionReceipt", "getBlock"}
       THEN PosOf(p) < i
       ELSE PosOf(p) <= i

\* the second transaction is being fetched after records of the first were
\* written
C7_Witness ==
  /\ pc = "getBlock" /\ i = 2
  /\ PerTxFacts # {}

\* -------------------------------------------------------------------- C8
\* the registry holds an approval for (token, owner, spender), compared
\* ignoring letter case
Registered(token, owner, spender) ==
  \E e \in 1..Len(approvals) :
    /\ toLowerCase(approvals[e][1][1]) = toLowerCase(token)
    /\ toLowerCase(approvals[e][1][2]) = toLowerCase(owner)
    /\ toLowerCase(approvals[e][1][3]) = toLowerCase(spender)

\* the Transfer logs of the processed transaction whose (log address,
\* transfer from, transaction sender) has a registered approval
LinkedTransfers ==
  {k \in 1..Len(rc[1].logs) :
     /\ GoodTransfer(rc[1].logs[k])
     /\ Registered(rc[1].logs[k].address, topicToAddress(rc[1].logs[k].topics[2]),
                   tx[1].from)}

ApprovalsBefore(p) == {q \in Written("approvals") : q < p /\ SameTriple(q, p)}

\* the latest of them
LatestApproval(p) == CHOOSE q \in ApprovalsBefore(p) : \A r \in ApprovalsBefore(p) : r <= q

\* C9 (as claimed): a usage record carries the amount and the transaction of
\* the most recently processed approval of its (token, owner, spender),
\* whatever the letter case the addresses were recorded in.
C9_LastWriteWins ==
  \A p \in Written("allowance_usage") :
    ApprovalsBefore(p) # {} =>
      /\ out[p].doc.approved_amount = out[LatestApproval(p)].doc.value
      /\ out[p].doc.approval_tx_hash = out[LatestApproval(p)].doc.tx_hash

\* ------------------------------------------------------------------- C10
\* the address_profile records of address a, in any letter case
ProfilesOf(a) ==
  {p \in Written("address_profile") : toLowerCase(out[p].doc.address) = toLowerCase(a)}

\* the sum over a's profile records of the decimal string field f selects
ProfileTotal(a, f(_)) ==
  SumAt(ProfilesOf(a), [p \in ProfilesOf(a) |-> BigIntDec(f(out[p].doc))])

EthOut(d) == d.eth_out_wei

EthIn(d) == d.eth_in_wei

Erc20OutT(d) == DictGet(d.erc20_out, "T")

Erc20InT(d) == DictGet(d.erc20_in, "T")

\* C10 (as claimed): after the scenario's three transactions, A's profile
\* has eth_out_wei 1000, B's has eth_in_wei 1000 and erc20_out[T] 500, C's
\* has erc20_in[T] 500, there is exactly one approval record, of amount
\* "200", and no allowance_usage record -- with or without call traces.
C10_Scenario ==
  pc = "done" =>
    /\ ProfileTotal("A", EthOut) = 1000
    /\ ProfileTotal("B", EthIn) = 1000
    /\ ProfileTotal("B", Erc20OutT) = 500
    /\ ProfileTotal("C", Erc20InT) = 500
    /\ Cardinality(Written("approvals")) = 1
    /\ \A p \in Written("approvals") : out[p].doc.value = <<2, 0, 0>>
    /\ Written("allowance_usage") = {}

\* ------------------------------------------------------------------- C11
RECURSIVE Concat(_)
\* the lines of the files, one file after the other
Concat(fs) == IF fs = <<>> THEN <<>> ELSE fs[1] \o Concat(Tail(fs))

\* ceil(n / k)
CeilDiv(n, k) == (n + k - 1) \div k

\* C11 (as claimed): after N writes through a writer of capacity K there are
\* exactly ceil(N/K) files, each of at most K records, and the files in
\* index order hold the sequence of writes -- for every N >= 0.
C11_ShardBoundary ==
  pc = "writer" =>
    /\ Len(sink.files) = CeilDiv(Len(written), sink.shardSize)
    /\ \A k \in 1..Len(sink.files) : Len(sink.files[k]) <= sink.shardSize
    /\ Concat(sink.files) = written

\* C11 (amended): the first file is created by the constructor, so there
\* are ceil(N/K) files for N >= 1 and one (empty) file for N = 0; each file
\* holds at most K records and the files in index order hold the sequence
\* of writes.
C11_ShardBoundaryAmended ==
  pc = "writer" =>
    /\ Len(sink.files) = IF written = <<>> THEN 1
                         ELSE CeilDiv(Len(written), sink.shardSize)
    /\ \A k \in 1..Len(sink.files) : Len(sink.files[k]) <= sink.shardSize
    /\ Concat(sink.files) = written

\* a writer of capacity 2 rolled over twice, the last file not full
C11_Witness ==
  /\ pc = "writer"
  /\ sink.shardSize = 2 /\ Len(written) = 5 /\ Len(sink.files) = 3

\* ------------------------------------------------------------------- C12
\* the records of doc_type d and asset_type a that belong to hash h
AssetFacts(d, a, h) == {p \in WrittenFor(d, h) : out[p].doc.asset_type = a}

\* C12 (as claimed): a processed transaction with a non-zero value has
\* exactly one native asset_transfer and one native fund_flow_edge, also
\* when it creates a contract (to is null); one with no value has none;
\* each decoded Transfer log has exactly one erc20 asset_transfer; there is
\* no other asset_transfer.
C12_AssetTransferEmission ==
  JustProcessed =>
    LET h == HashAt(txHashes, i - 1)
        native == IF tx[1].value > 0 THEN 1 ELSE 0
    IN /\ Cardinality(AssetFacts("asset_transfer", "native", h)) = native
       /\ Cardinality(AssetFacts("fund_flow_edge", "native", h)) = native
       /\ Cardinality(AssetFacts("asset_transfer", "erc20", h))
            = CountLogs(rc[1], GoodTransfer)
       /\ Cardinality(WrittenFor("asset_transfer", h))
            = native + CountLogs(rc[1], GoodTransfer)

\* ------------------------------------------------------------------- C13
RECURSIVE ValuedDepths(_, _)
RECURSIVE ValuedDepthsOf(_, _, _)
\* the depths of the nodes with value > 0 of the tree rooted at call (at
\* the given depth), in depth-first order
ValuedDepths(call, depth) ==
  (IF TraceVal(call.value) > 0 THEN <<depth>> ELSE <<>>)
    \o ValuedDepthsOf(call.calls, 1, depth + 1)

ValuedDepthsOf(calls, k, depth) ==
  IF k > Len(calls) THEN <<>>
  ELSE ValuedDepths(calls[k], depth) \o ValuedDepthsOf(calls, k + 1, depth)

\* the depths carried by the internal_native_transfer records of hash h, in
\* the order of writing
InternalDepths(h) ==
  LET S == WrittenBy("internal_native_transfers", h)
      ord == [p \in S |-> Cardinality({q \in S : q <= p})]
  IN [k \in 1..Cardinality(S) |-> out[CHOOSE p \in S : ord[p] = k].doc.depth]

\* C13 (as claimed): after a transaction with a call tree, its
\* internal_native_transfer records are one per node with value > 0, each
\* with the node's distance from the root as depth -- whatever the call
\* kind, and also for nodes without a callee or a type.
C13_InternalTransfers ==
  (JustProcessed /\ trace # <<>>) =>
    InternalDepths(HashAt(txHashes, i - 1)) = ValuedDepths(trace[1], 0)

\* ------------------------------------------------------------------- C14
\* the numeric fields of an address_profile record hold a number or a
\* decimal string (NoNum is null)
ProfileInitialized(d) ==
  /\ d.eth_in_wei # <<>> /\ d.eth_out_wei # <<>>
  /\ d.gas_spent_wei # <<>> /\ d.total_gas_used # <<>>
  /\ d.eth_in_txs # NoNum /\ d.eth_out_txs # NoNum
  /\ d.tx_out_count # NoNum /\ d.tx_in_count # NoNum
  /\ d.first_seen_ts # NoNum /\ d.last_seen_ts # NoNum
  /\ d.first_seen_block # NoNum /\ d.last_seen_block # NoNum

MethodStatInitialized(d) ==
  /\ d.count # NoNum /\ d.success_count # NoNum /\ d.revert_count # NoNum
  /\ d.unique_callers # NoNum
  /\ d.first_seen_ts # NoNum /\ d.last_seen_ts # NoNum

\* C14 (as claimed): every address_profile and method_stat record written
\* at finalize has all its numeric fields set, none null -- also for an
\* address only ever touched through a token transfer or an internal
\* transfer.
C14_RecordsInitialized ==
  /\ \A p \in Written("address_profile") : ProfileInitialized(out[p].doc)
  /\ \A p \in Written("method_stats") : MethodStatInitialized(out[p].doc)

\* ------------------------------------------------------------------- C15
RECURSIVE ValuedParties(_)
\* the senders and recipients of the nodes with value > 0 of a call tree
ValuedParties(call) ==
  (IF TraceVal(call.value) > 0 THEN {call.from, call.to} \ {NULL} ELSE {})
    \cup UNION {ValuedParties(call.calls[k]) : k \in 1..Len(call.calls)}

\* the senders and recipients named by the records written so far for
\* transactions, token transfers and internal transfers
RecordedParties ==
  UNION {{out[p].doc.from, out[p].doc.to} \ {NULL} :
           p \in WrittenDoc("tx_enriched") \cup WrittenDoc("asset_transfer")
                   \cup WrittenDoc("internal_native_transfer")}

ProfileKeys == {prof[k][1] : k \in 1..Len(prof)}

\* C15 (as claimed): every sender or recipient of a processed transaction,
\* of a decoded token transfer or of an internal value transfer (a node of
\* the call tree with value > 0) has a profile from then on, and an
\* address_profile record once the run is complete.
C15_LazyProfiles ==
  /\ RecordedParties \subseteq ProfileKeys
  /\ (JustProcessed /\ trace # <<>>) => ValuedParties(trace[1]) \subseteq ProfileKeys
  /\ pc = "done" =>
       \A a \in ProfileKeys : \E p \in Written("address_profile") : out[p].doc.address = a

\* ------------------------------------------------------------------- C16
\* a log with the Transfer signature and exactly three topics
Transfer3(lg) ==
  Len(lg.topics) = 3 /\ topicLower(lg.topics[1]) = topicLower(TRANSFER_TOPIC0)

\* a log with the Approval signature and exactly three topics
Approval3(lg) ==
  Len(lg.topics) = 3 /\ topicLower(lg.topics[1]) = topicLower(APPROVAL_TOPIC0)

\* C16 (as claimed): after a transaction, the erc20 asset_transfer records
\* and the approval records of its hash are one per log with the Transfer
\* (Approval) signature and exactly three topics -- a log with four topics
\* yields none -- and the approval registry holds no more entries than
\* approval records were written.
C16_ExactlyThreeTopics ==
  /\ JustProcessed =>
       LET h == HashAt(txHashes, i - 1) IN
       /\ Cardinality(AssetFacts("asset_transfer", "erc20", h)) = CountLogs(rc[1], Transfer3)
       /\ Cardinality(WrittenFor("approval", h)) = CountLogs(rc[1], Approval3)
  /\ Len(approvals) <= Cardinality(Written("approvals"))

\* ------------------------------------------------------------------- C17
\* the reason field of the revert_reason record of the processed transaction
WrittenReason ==
  out[CHOOSE p \in WrittenFor("revert_reason", HashAt(txHashes, i - 1)) : TRUE].doc.reason

\* the reason and the output the tracer supplied (<<>>: none)
SuppliedReason == IF trace = <<>> THEN <<>> ELSE trace[1].revertReason

SuppliedOutput == IF trace = <<>> THEN <<>> ELSE trace[1].output

\* "Panic(" and ")" around a text
PanicOf(text) == <<80, 97, 110, 105, 99, 40>> \o text \o <<41>>

RequestsFor(h, tracers) ==
  { k \in 1..Len(sent) : sent[k].tx_hash = h /\ sent[k].tracer \in tracers }

\* the call-tracer request at position k came back with nothing: it was
\* rejected (tryCallTrace returns null) or the node answered null
ReturnedNone(k) == sent[k].result \in {"throws", "null"}

\* C18: within one run, for each transaction the call tracer is requested at
\* most once and the prestate tracer at most twice (primary variant, then
\* fallback variant), and once a call-trace request for a transaction has
\* returned none, no further call-trace request is issued for it.
C18_TracingBounded ==
  \A h \in 1..Len(txHashes) :
    /\ Cardinality(RequestsFor(h, {"callTracer"})) <= 1
    /\ Cardinality(RequestsFor(h, {"prestateTracer", "stateDiffTracer"})) <= 2
    /\ \A j \in RequestsFor(h, {"callTracer"}) :
         ReturnedNone(j) => \A k \in RequestsFor(h, {"callTracer"}) : k <= j

\* the part of C18 about the prestate tracer alone
PrestateTracerBounded ==
  \A h \in 1..Len(txHashes) :
    /\ Cardinality(RequestsFor(h, {"prestateTracer"})) <= 1
    /\ Cardinality(RequestsFor(h, {"stateDiffTracer"})) <= 1
    /\ \A k \in RequestsFor(h, {"stateDiffTracer"}) :
         k > 1 /\ sent[k - 1] = Request(h, "prestateTracer", "throws")

\* ----------------------------------------------------------------------- C19
\* the three accumulators
Accumulators == << prof, methodStats, approvals >>

\* main() is suspended on a fetch of the DERIVE loop
Suspended ==
  pc \in {"getTransaction", "getTransactionReceipt", "getBlock", "tryCallTrace"}

\* the accumulators carry an update made for the transaction at position k
\* (the only one of block k): a profile was last seen in that block
TouchedBy(k) ==
  \E x \in 1..Len(prof) : prof[x][2].last_seen_block = k

\* C19: all mutations of the profile map, the method-stat map and the
\* approval registry that belong to one transaction happen with no
\* suspension on a fetch between the first and the last of them: once the
\* accumulators carry an update of the current transaction and main() is
\* suspended on a fetch, resuming changes none of them for that transaction.
C19_AtomicUpdates ==
  [][(Suspended /\ TouchedBy(i)) => UNCHANGED Accumulators]_vars

\* the conclusion of C19 taken alone: no accumulator carries an update of a
\* transaction later than the current one
UpdatesInOrder ==
  \A x \in 1..Len(prof) : prof[x][2].last_seen_block <= i

\* ----------------------------------------------------------------------- C20
RECURSIVE WriteAll(_, _)
\* the writer state after write(obj) for each obj of objs, in order
WriteAll(st, objs) ==
  IF objs = <<>> THEN st ELSE WriteAll(write(st, Head(objs)), Tail(objs))

\* the records handed to writer w so far, in order
RecordsOf(w) ==
  LET mine == SelectSeq(out, LAMBDA x : x.w = w)
  IN [k \in 1..Len(mine) |-> mine[k].doc]

\* the closure state of the writer created for stream w with
\* ndjsonWriter(dir, w, SHARD_SIZE), after the writes and the end() it received
StreamOf(w) ==
  LET st == WriteAll(ndjsonWriter(SHARD_SIZE), RecordsOf(w))
  IN IF w \in ended THEN endWriter(st) ELSE st

\* C20: when a run has completed, every declared output stream (RAW and
\* DERIVED) has at least one file, and the streams that received no record
\* have exactly one, empty, file.
C20_StreamsCreated ==
  pc = "done" =>
    \A w \in RawWriters \cup DerivedWriters :
      /\ Len(StreamOf(w).files) >= 1
      /\ RecordsOf(w) = <<>> => StreamOf(w).files = << <<>> >>

\* a completed run that processed a transaction in which nothing reverted and
\* no allowance was used
C20_Witness ==
  /\ pc = "done"
  /\ Len(RecordsOf("tx_enriched")) >= 1
  /\ RecordsOf("revert_reasons") = <<>>
  /\ RecordsOf("allowance_usage") = <<>>
  /\ Len(StreamOf("revert_reasons").files) = 1

\* ----------------------------------------------------------------------- C21
\* file f tells who the attackers are: it holds the attacker list, lists a
\* contract under the role of an attacker contract, or is the ABI / bytecode
\* of one
RevealsTruth(f) ==
  \/ f.attackers # <<>>
  \/ f.contracts \cap {"reent", "adminBug"} # {}
  \/ f.dir \in {"abi", "bytecode"} /\ f.name \in {"ReentrancyAttacker", "AdminConfigBug"}

\* C21: no file copied or written into TEAM_BUNDLE contains the attacker
\* list or labels the attacker contracts as such.
C21_TeamBundleBlind ==
  \A f \in fsys.TEAM : ~RevealsTruth(f)

\* the same for the runs of pipeline_all.js alone
TeamBundleBlindV1 ==
  script = "v1" => \A f \in fsys.TEAM : ~RevealsTruth(f)

\* the ground truth does reach RESEARCH_BUNDLE
ResearchHasTruth ==
  pc = "finished" => \E f \in fsys.RESEARCH : f.attackers = truth.attackers

\* ----------------------------------------------------------------------- C22
\* C22: when a stream's files are copied into a bundle, every record written
\* to the stream before end() is already in the files: the bundled copy is
\* the full sequence of writes.
C22_DurableBeforeBundling ==
  bundled # <<>> => Concat(bundled[1]) = written

\* what the stream guarantees: the disk holds a prefix of the writes
DiskIsPrefix ==
  /\ Len(Concat(disk)) <= Len(written)
  /\ Concat(disk) = SubSeq(written, 1, Len(Concat(disk)))

\* ----------------------------------------------------------------------- C23
\* C23: at finalize there is exactly one address_profile record per distinct
\* address, also when the address reached the accumulator in different
\* letter case: no two records (and no two keys of the profile map) spell
\* the same address.
C23_OneProfilePerAddress ==
  /\ \A x \in 1..Len(prof), y \in 1..Len(prof) :
       toLowerCase(prof[x][1]) = toLowerCase(prof[y][1]) => x = y
  /\ \A p \in Written("address_profile"), q \in Written("address_profile") :
       toLowerCase(out[p].doc.address) = toLowerCase(out[q].doc.address) => p = q

\* the part of C23 that holds: one record per key of the map, spelled as
\* the key was
OneProfilePerKey ==
  /\ \A x \in 1..Len(prof), y \in 1..Len(prof) : prof[x][1] = prof[y][1] => x = y
  /\ \A p \in Written("address_profile"), q \in Written("address_profile") :
       out[p].doc.address = out[q].doc.address => p = q
  /\ pc = "done" =>
       {out[p].doc.address : p \in Written("address_profile")} = ProfileKeys

\* ----------------------------------------------------------------------- C24
\* the position in the sequence of the transaction with hash h
SeqPos(h) == CHOOSE k \in 1..Len(txHashes) : txHashes[k] = h

\* C24: the approval linked by an allowance_usage record comes from a
\* transaction strictly earlier in the sequence than the usage transaction.
C24_ApprovalIsPrior ==
  \A p \in Written("allowance_usage") :
    /\ out[p].doc.approval_tx_hash # out[p].doc.drain_tx_hash
    /\ SeqPos(out[p].doc.approval_tx_hash) < SeqPos(out[p].doc.drain_tx_hash)

\* what does hold: the linked approval is never from a later transaction
ApprovalNotLater ==
  \A p \in Written("allowance_usage") :
    SeqPos(out[p].doc.approval_tx_hash) <= SeqPos(out[p].doc.drain_tx_hash)

\* ----------------------------------------------------------------------- C25
\* C25: no ndjsonWriter receives a write() after end() has been called on
\* it: every record a step writes goes to a writer that is not ended.
C25_NoWriteAfterEnd ==
  [][\A p \in (Len(out) + 1)..Len(out') : out'[p].w \notin ended]_vars

\* ------------------------------------------------------------------- C29
\* the sum over all address profiles of the decimal-string field f selects
ProfSum(f(_)) ==
  SumAt(1..Len(prof), [k \in 1..Len(prof) |-> BigIntDec(f(prof[k][2]))])

\* every key of an erc20_in / erc20_out dictionary of some profile
ProfTokens ==
  UNION {DOMAIN prof[k][2].erc20_in \cup DOMAIN prof[k][2].erc20_out : k \in 1..Len(prof)}

\* the sum over all profiles of erc20_in[T], of erc20_out[T]
Erc20InSum(T) ==
  SumAt(1..Len(prof), [k \in 1..Len(prof) |-> BigIntDec(DictGet(prof[k][2].erc20_in, T))])

Erc20OutSum(T) ==
  SumAt(1..Len(prof), [k \in 1..Len(prof) |-> BigIntDec(DictGet(prof[k][2].erc20_out, T))])

\* C29 (as claimed): after any prefix of the run, the sum of eth_in_wei over
\* all address profiles equals the sum of eth_out_wei, and for every token T
\* the sum of erc20_in[T] over all profiles equals the sum of erc20_out[T].
C29_GlobalBalance ==
  /\ ProfSum(EthIn) = ProfSum(EthOut)
  /\ \A T \in ProfTokens : Erc20InSum(T) = Erc20OutSum(T)

\* ------------------------------------------------------------------- C30
\* tx_enriched records of transactions with a `to` and a method selector
SelectorCalls ==
  {p \in Written("tx_enriched") : out[p].doc.to # NULL /\ out[p].doc.method_id # "0x"}

\* the sum of count over all MethodStat entries
CountSum ==
  SumAt(1..Len(methodStats), [k \in 1..Len(methodStats) |-> methodStats[k][2].count])

\* C30: after any prefix of the run, every MethodStat entry has
\* count = success_count + revert_count and 1 <= distinct callers <= count,
\* the sum of count over all entries is the number of processed
\* transactions with a non-null `to` and a non-empty method selector, and
\* the flushed method_stat records say the same.
C30_MethodStatConsistency ==
  /\ \A k \in 1..Len(methodStats) :
       LET s == methodStats[k][2]
       IN /\ s.count = s.success_count + s.revert_count
          /\ 1 <= Len(s.callers) /\ Len(s.callers) <= s.count
  /\ CountSum = Cardinality(SelectorCalls)
  /\ \A p \in Written("method_stats") :
       /\ out[p].doc.count = out[p].doc.success_count + out[p].doc.revert_count
       /\ 1 <= out[p].doc.unique_callers /\ out[p].doc.unique_callers <= out[p].doc.count

\* a finished run that processed a reverted call and a successful call of
\* two methods, and flushed both entries
C30_Witness ==
  /\ pc = "done"
  /\ \E p, q \in Written("method_stats") :
       /\ out[p].doc.revert_count = 1
       /\ out[q].doc.success_count = 1

\* ------------------------------------------------------------------- C28
\* withdraw was entered again while a withdraw was running
Reentered == Cardinality({k \in 1..Len(entered) : entered[k] = "withdraw"}) >= 2

\* the attack frame is about to end, by returning or by reverting
AttackEnds == pc = "evm" /\ Len(stack) = 1 /\ Top.pc \in {"return", "revert"}

\* the attack of simulate_10k.js: msg.value = amount, on a vault whose
\* other users' deposits cover at least one more withdrawal
AttackCase == world.held >= Top.amount /\ Top.value = Top.amount

\* C28 (as claimed): when the vault holds other users' deposits,
\* attack(amount) re-enters withdraw from the receive hook and the
\* transaction completes without reverting, leaving the attacker contract
\* with more ETH than it deposited.
C28_ReentrancySucceeds ==
  (AttackEnds /\ AttackCase)
    => /\ Top.pc = "return"
       /\ Reentered
       /\ world.ethReent > Top.value

\* what the code does instead: whatever the amounts, the attacker contract
\* never holds more than msg.value when its frame returns, and the attack
\* on a vault that holds other users' deposits re-enters and reverts
NoProfit ==
  AttackEnds
    => /\ (Top.pc = "return" => world.ethReent <= Top.value)
       /\ (AttackCase => Reentered /\ Top.pc = "revert")

\* ------------------------------------------------------------------- C26
\* the block an attempt was mined in (0: in none)
BlockOf(a) ==
  IF \E b \in 1..Len(blocks) : \E k \in 1..Len(blocks[b]) : blocks[b][k] = a
  THEN CHOOSE b \in 1..Len(blocks) : \E k \in 1..Len(blocks[b]) : blocks[b][k] = a
  ELSE 0

\* the three transactions of the sandwich step have all been mined
SandwichMined ==
  \A name \in {"front", "victim", "back"} : BlockOf(Attempt(SandwichAt, name)) # 0

\* C26 (as claimed): the front-run, victim and back-run transactions of the
\* sandwich step are mined in the same block, in that order, whatever the
\* interleaving of the three sends with evm_mine and evm_setAutomine(true).
C26_SandwichSameBlock ==
  SandwichMined =>
    \E b \in 1..Len(blocks) :
      blocks[b] = << Attempt(SandwichAt, "front"), Attempt(SandwichAt, "victim"),
                     Attempt(SandwichAt, "back") >>

\* what the code does ensure: once the three safeWait calls have
\* returned, every sandwich transaction that was sent is in some block
SandwichSettled ==
  (i = SandwichAt /\ pc = "record") =>
    \A name \in {"front", "victim", "back"} :
      sends[Attempt(i, name)] \in {"ok", "reverted", "rejected"}

\* ------------------------------------------------------------------- C27
\* the attempts that failed, at send time or at wait time
Failed == {a \in DOMAIN sends : sends[a] \in {"rejected", "reverted"}}

FailuresOf(a) == {k \in 1..Len(failures) : failures[k].of = a}

\* C27 (as claimed): a rejection at send time or at wait time never ends the
\* run: the loop reaches iteration TOTAL_TX and ends normally, and every
\* failed attempt, the three sandwich sends included, has exactly one entry
\* in failures and no hash in txHashes.
C27_FailureNeverKills ==
  /\ pc # "exit1"
  /\ pc = "done" =>
       /\ i = TOTAL_TX + 1
       /\ \A a \in Failed :
            /\ Cardinality(FailuresOf(a)) = 1
            /\ \A k \in 1..Len(txHashes) : txHashes[k] # a

\* what holds of every attempt that safeWait was awaiting when it failed
HandledFailures ==
  pc = "done" =>
    /\ i = TOTAL_TX + 1
    /\ \A a \in Failed :
         /\ Cardinality(FailuresOf(a)) = 1
         /\ \A k \in 1..Len(txHashes) : txHashes[k] # a
    /\ \A k \in 1..Len(txHashes) : sends[txHashes[k]] = "ok"

====
